---- MODULE Spec2Model ----
(***************************************************************************)
(* Invoice3: the background invoice pipeline (api/invoices.py), the        *)
(* two-agent validation workflow and its recommendation rule               *)
(* (services/agentic_validation_service.py) and the invoice store          *)
(* (db_interface.py).                                                      *)
(*                                                                         *)
(* Python values are modelled as follows.  A dict is a function whose      *)
(* DOMAIN is its key set.  A JSON value whose type the code tests or       *)
(* relies on (the root of a model response, and the values under its       *)
(* "matching", "fraud" and "insights" keys) is a record tagged by its      *)
(* field t, with the value under a field named after the tag.  A raised    *)
(* exception is the field exc of the record an operator returns ("none"    *)
(* when it returns normally).                                              *)
(* Timestamps and the text of prompts and messages are left out.           *)
(***************************************************************************)
EXTENDS Integers, Sequences, FiniteSets, TLC

VARIABLES
    invoices,         \* the invoices table: invoice_id -> row
    purchase_orders,  \* the purchase_orders table: po_number -> row
    goods_receipts,   \* the goods_receipts table, in storage order
    vendors,          \* the vendors table: vendor_id -> row
    uuids,            \* identifiers uuid4 has not handed out yet
    request,          \* filename and size of the last POST /upload
    response,         \* the answer to it: status code (0: none yet) and invoice id
    pc,               \* invoice_id -> position of its background task
    local,            \* invoice_id -> local variables of its background task
    env,              \* what the store, the extraction service and the generative
                      \* model can answer in this behaviour
    vpc,              \* position of a stand-alone validate_invoice call
    vstate,           \* the ValidationState of that call
    vin,              \* the inputs that call has consumed so far
    vout,             \* what that call returned
    apc,              \* position of a stand-alone extract_invoice call
    astate,           \* its local variables and the calls it has made so far
    aout              \* what that call returned

pipeVars == <<invoices, purchase_orders, goods_receipts, vendors, uuids, request, response,
              pc, local, env>>
valVars == <<vpc, vstate, vin, vout>>
adeVars == <<apc, astate, aout>>
vars == <<invoices, purchase_orders, goods_receipts, vendors, uuids, request, response,
          pc, local, env, vpc, vstate, vin, vout, apc, astate, aout>>

(***************************************************************************)
(* Bounds of the model.                                                    *)
(***************************************************************************)
MaxInsights == 1
MaxLineItems == 6

(***************************************************************************)
(* Python dict operations.                                                 *)
(***************************************************************************)
EmptyDict == [k \in {} |-> 0]

Get(d, k, default) == IF k \in DOMAIN d THEN d[k] ELSE default

SetItem(d, k, v) == [x \in DOMAIN d \cup {k} |-> IF x = k THEN v ELSE d[x]]

SetDefault_overwrites(d, k, v) == SetItem(d, k, v)

SetDefault(d, k, v) == IF k \in DOMAIN d THEN d ELSE SetItem(d, k, v)

(***************************************************************************)
(* JSON values.                                                            *)
(***************************************************************************)
JObj(d) == [t |-> "obj", d |-> d]
JList(l) == [t |-> "list", l |-> l]
JNull == [t |-> "null"]
Absent == [t |-> "absent"]

(***************************************************************************)
(* The generative model's answer to one prompt: the call raises            *)
(* (call = "error"), or returns text that json.loads rejects               *)
(* (parses = FALSE), or returns text that parses to the JSON value `value`.*)
(***************************************************************************)
CallError == [call |-> "error", parses |-> FALSE, value |-> JNull]
NonJson == [call |-> "ok", parses |-> FALSE, value |-> JNull]
Json(j) == [call |-> "ok", parses |-> TRUE, value |-> j]

CallFailed(resp) == resp.call = "error" \/ (resp.call = "ok" /\ ~resp.parses)

CheckNames == {"bank_change", "duplicate", "amount_anomaly", "velocity"}

FallbackFraud_no_risk ==
    [risk_score |-> 0,
     risk_level |-> "LOW",
     signals |-> << [type |-> "SYSTEM", severity |-> "MEDIUM",
                     description |-> "Agent error", risk_points |-> 20] >>,
     checks_performed |-> [c \in CheckNames |-> FALSE]]

FallbackFraud ==
    [risk_score |-> 50,
     risk_level |-> "MEDIUM",
     signals |-> << [type |-> "SYSTEM", severity |-> "MEDIUM",
                     description |-> "Agent error", risk_points |-> 20] >>,
     checks_performed |-> [c \in CheckNames |-> FALSE]]

FallbackData ==
    JObj([matching |-> JObj(EmptyDict),
          fraud |-> JObj(FallbackFraud),
          insights |-> JList(<< "Agent fallback due to error" >>)])

\* response.text is stripped of code fences and parsed; every exception of the
\* call or of the parse gives the fixed fallback payload.
_invoke_llm(resp) ==
    IF resp.call = "ok" /\ resp.parses THEN resp.value ELSE FallbackData

Event(stage, message) == [stage |-> stage, message |-> message]

InsightEvents(stage, insights) ==
    [k \in 1..Len(insights) |-> Event(stage, insights[k])]

Returned(state) == [exc |-> "none", state |-> state]
Raised(exc, state) == [exc |-> exc, state |-> state]

\* data.get on a non-dict raises AttributeError; iterating a null "insights"
\* raises TypeError.  Neither is caught in the node.
_match_agent(state, resp) ==
    LET data == _invoke_llm(resp) IN
    IF data.t # "obj" THEN Raised("AttributeError", state)
    ELSE LET matching == Get(data.d, "matching", JObj(EmptyDict))
             insights == Get(data.d, "insights", JList(<<>>))
             s1 == SetItem(state, "matching", matching)
         IN  IF insights.t # "list" THEN Raised("TypeError", s1)
             ELSE Returned(SetItem(s1, "insights",
                      Get(s1, "insights", <<>>)
                          \o InsightEvents("MATCH_AGENT", insights.l)))

DefaultChecks == [c \in CheckNames |-> TRUE]

_fraud_agent_prepends(state, resp) ==
    LET data == _invoke_llm(resp) IN
    IF data.t # "obj" THEN Raised("AttributeError", state)
    ELSE LET fraud == Get(data.d, "fraud", JObj(EmptyDict)) IN
         IF fraud.t # "obj" THEN Raised("AttributeError", state)
         ELSE LET fraud1 == JObj(SetDefault(fraud.d, "checks_performed", DefaultChecks))
                  insights == Get(data.d, "insights", JList(<<>>))
                  s1 == SetItem(state, "fraud", fraud1)
              IN  IF insights.t # "list" THEN Raised("TypeError", s1)
                  ELSE Returned(SetItem(s1, "insights",
                           InsightEvents("FRAUD_AGENT", insights.l)
                               \o Get(s1, "insights", <<>>)))

_fraud_agent(state, resp) ==
    LET data == _invoke_llm(resp) IN
    IF data.t # "obj" THEN Raised("AttributeError", state)
    ELSE LET fraud == Get(data.d, "fraud", JObj(EmptyDict)) IN
         IF fraud.t # "obj" THEN Raised("AttributeError", state)
         ELSE LET fraud1 == JObj(SetDefault(fraud.d, "checks_performed", DefaultChecks))
                  insights == Get(data.d, "insights", JList(<<>>))
                  s1 == SetItem(state, "fraud", fraud1)
              IN  IF insights.t # "list" THEN Raised("TypeError", s1)
                  ELSE Returned(SetItem(s1, "insights",
                           Get(s1, "insights", <<>>)
                               \o InsightEvents("FRAUD_AGENT", insights.l)))

_determine_recommendation_risk_first(matching, fraud, extraction_quality) ==
    LET risk_score == Get(fraud, "risk_score", 0)
        overall_score == Get(matching, "overall_score", 0)
    IN  IF risk_score >= 70 THEN "REJECT"
        ELSE IF extraction_quality < 70 THEN "NEEDS_REVIEW"
        ELSE IF overall_score < 60 THEN "REJECT"
        ELSE IF risk_score >= 40 \/ overall_score < 85 THEN "NEEDS_REVIEW"
        ELSE "APPROVE"

_determine_recommendation_strict(matching, fraud, extraction_quality) ==
    LET risk_score == Get(fraud, "risk_score", 0)
        overall_score == Get(matching, "overall_score", 0)
    IN  IF extraction_quality < 70 THEN "NEEDS_REVIEW"
        ELSE IF risk_score > 70 THEN "REJECT"
        ELSE IF overall_score < 60 THEN "REJECT"
        ELSE IF risk_score >= 40 \/ overall_score <= 85 THEN "NEEDS_REVIEW"
        ELSE "APPROVE"

_determine_recommendation(matching, fraud, extraction_quality) ==
    LET risk_score == Get(fraud, "risk_score", 0)
        overall_score == Get(matching, "overall_score", 0)
    IN  IF extraction_quality < 70 THEN "NEEDS_REVIEW"
        ELSE IF risk_score >= 70 THEN "REJECT"
        ELSE IF overall_score < 60 THEN "REJECT"
        ELSE IF risk_score >= 40 \/ overall_score < 85 THEN "NEEDS_REVIEW"
        ELSE "APPROVE"

_build_reasoning(matching, fraud, insights, extraction_quality) ==
    [extraction_quality |-> extraction_quality,
     match_score |-> Get(matching, "overall_score", 0),
     match_status |-> Get(matching, "overall_status", "UNKNOWN"),
     risk_score |-> Get(fraud, "risk_score", 0),
     risk_level |-> Get(fraud, "risk_level", "UNKNOWN"),
     insights |-> insights]

_build_summary(matching, fraud, recommendation) ==
    <<recommendation, Get(matching, "overall_score", 0), Get(fraud, "risk_score", 0)>>

NoResult == [exc |-> "none", result |-> EmptyDict]

\* The part of validate_invoice after graph.invoke: final_state.get(...) with
\* {} / [] defaults, then the recommendation, reasoning and summary.
AssembleResult(final_state, extraction_quality) ==
    LET matching == Get(final_state, "matching", JObj(EmptyDict))
        fraud == Get(final_state, "fraud", JObj(EmptyDict))
        insights == Get(final_state, "insights", <<>>)
    IN  IF matching.t # "obj" \/ fraud.t # "obj"
        THEN [exc |-> "AttributeError", result |-> EmptyDict]
        ELSE LET recommendation ==
                     _determine_recommendation(matching.d, fraud.d, extraction_quality)
             IN  [exc |-> "none",
                  result |->
                     [matching |-> matching.d,
                      fraud |-> fraud.d,
                      recommendation |-> recommendation,
                      reasoning |-> _build_reasoning(matching.d, fraud.d, insights,
                                                     extraction_quality),
                      summary |-> _build_summary(matching.d, fraud.d, recommendation),
                      insights |-> insights]]

InitialState(extraction, po, grn, vendor, extraction_quality) ==
    [extraction |-> extraction, po |-> po, grn |-> grn, vendor |-> vendor,
     extraction_quality |-> extraction_quality, insights |-> <<>>]

\* START -> match_agent -> fraud_agent -> END, then the assembly.  An exception
\* of a node leaves graph.invoke and validate_invoice.
validate_invoice(extraction, po, grn, vendor, extraction_quality, mresp, fresp) ==
    LET s0 == InitialState(extraction, po, grn, vendor, extraction_quality)
        r1 == _match_agent(s0, mresp)
    IN  IF r1.exc # "none" THEN [exc |-> r1.exc, result |-> EmptyDict]
        ELSE LET r2 == _fraud_agent(r1.state, fresp) IN
             IF r2.exc # "none" THEN [exc |-> r2.exc, result |-> EmptyDict]
             ELSE AssembleResult(r2.state, extraction_quality)

(***************************************************************************)
(* Answers the generative model can give.                                  *)
(***************************************************************************)
Qualities == {0, 60, 69, 70, 80, 100}
MatchScores == {0, 59, 60, 84, 85, 90, 100}
RiskScores == {0, 39, 40, 45, 69, 70, 100}

MatchDict(score, status) ==
    [invoice_po_score |-> score, invoice_po_status |-> status,
     invoice_po_mismatches |-> <<>>,
     invoice_grn_score |-> score, invoice_grn_status |-> status,
     invoice_grn_mismatches |-> <<>>,
     overall_status |-> status, overall_score |-> score]

RiskLevel(score) ==
    IF score >= 70 THEN "HIGH" ELSE IF score >= 40 THEN "MEDIUM" ELSE "LOW"

Restrict(d, keys) == [k \in DOMAIN d \cap keys |-> d[k]]

FraudDict(score, checks) ==
    LET base == [risk_score |-> score, risk_level |-> RiskLevel(score),
                 signals |-> <<>>]
    IN  IF checks.t = "absent" THEN base
        ELSE SetItem(base, "checks_performed", checks.d)

\* checks_performed as the model may send it: all four keys, some of them,
\* none of them (an empty mapping), or no mapping at all.
ChecksPayloads ==
    {JObj(DefaultChecks),
     JObj([c \in CheckNames |-> c # "duplicate"]),
     JObj([c \in {"bank_change"} |-> TRUE]),
     JObj(EmptyDict),
     Absent}

Insights(n) == [k \in 1..n |-> "insight"]

InsightPayloads == {JList(Insights(n)) : n \in 0..MaxInsights} \cup {JNull, Absent}

MatchPayloads ==
    {JObj(MatchDict(s, st)) : s \in MatchScores, st \in {"MATCH", "MISMATCH"}}
        \cup {JObj(EmptyDict), JObj([overall_status |-> "PARTIAL"]), JList(<<>>), Absent}

\* An answer whose score is out of range and whose level contradicts it.
OutOfRangeFraud == [risk_score |-> 150, risk_level |-> "LOW", signals |-> <<>>]

FraudPayloads ==
    {JObj(FraudDict(s, c)) : s \in RiskScores, c \in ChecksPayloads}
        \cup {JObj(OutOfRangeFraud), JObj(EmptyDict), JList(<<>>), Absent}

\* A JSON object with the given values under "matching"/"fraud"/"insights";
\* a key whose value is Absent is left out.
Data(m, f, i) ==
    LET all == [matching |-> m, fraud |-> f, insights |-> i]
    IN  JObj(Restrict(all, {k \in DOMAIN all : all[k].t # "absent"}))

MatchResponses ==
    {CallError, NonJson, Json(JList(<<>>))}
        \cup {Json(Data(m, Absent, i)) : m \in MatchPayloads, i \in InsightPayloads}

FraudResponses ==
    {CallError, NonJson, Json(JList(<<>>))}
        \cup {Json(Data(Absent, f, i)) : f \in FraudPayloads, i \in InsightPayloads}

(***************************************************************************)
(* A stand-alone call of validate_invoice, one graph node per step.        *)
(***************************************************************************)
NoResp == [call |-> "none", parses |-> FALSE, value |-> JNull]

VInit ==
    /\ vpc = "match_agent"
    /\ \E q \in Qualities :
          /\ vstate = InitialState("fields", "po", "grn", "vendor", q)
          /\ vin = [extraction_quality |-> q, mresp |-> NoResp, fresp |-> NoResp]
    /\ vout = NoResult

VMatchAgent ==
    /\ vpc = "match_agent"
    /\ \E resp \in MatchResponses :
          LET r == _match_agent(vstate, resp) IN
          /\ vin' = [vin EXCEPT !.mresp = resp]
          /\ IF r.exc = "none"
             THEN /\ vpc' = "fraud_agent"
                  /\ vstate' = r.state
                  /\ vout' = vout
             ELSE /\ vpc' = "graph_raised"
                  /\ vstate' = vstate
                  /\ vout' = [exc |-> r.exc, result |-> EmptyDict]
    /\ UNCHANGED <<pipeVars, adeVars>>

VFraudAgent ==
    /\ vpc = "fraud_agent"
    /\ \E resp \in FraudResponses :
          LET r == _fraud_agent(vstate, resp) IN
          /\ vin' = [vin EXCEPT !.fresp = resp]
          /\ IF r.exc = "none"
             THEN /\ vpc' = "assemble"
                  /\ vstate' = r.state
                  /\ vout' = vout
             ELSE /\ vpc' = "graph_raised"
                  /\ vstate' = vstate
                  /\ vout' = [exc |-> r.exc, result |-> EmptyDict]
    /\ UNCHANGED <<pipeVars, adeVars>>

VAssemble ==
    /\ vpc = "assemble"
    /\ LET r == AssembleResult(vstate, vin.extraction_quality) IN
       /\ vout' = r
       /\ vpc' = IF r.exc = "none" THEN "returned" ELSE "raised"
    /\ UNCHANGED <<vstate, vin>>
    /\ UNCHANGED <<pipeVars, adeVars>>

VNext == VMatchAgent \/ VFraudAgent \/ VAssemble

(***************************************************************************)
(* The store.  A NULL column is None; a Text column that holds serialized  *)
(* JSON is a tagged record: NullText, JsonText(value) or BadText (text     *)
(* json.loads rejects).                                                    *)
(***************************************************************************)
None == "None"
NullText == [k |-> "null"]
BadText == [k |-> "bad"]
JsonText(value) == [k |-> "json", v |-> value]

\* json.dumps / json.loads on a Text column; loads raises on malformed text.
json_dumps(value) == JsonText(value)
json_loads(text) ==
    IF text.k = "json" THEN [exc |-> "none", value |-> text.v]
    ELSE [exc |-> "JSONDecodeError", value |-> <<>>]

\* `column or default`: a NULL column is read as the default document.
OrDefault(text, default) == IF text.k = "null" THEN JsonText(default) ELSE text

PurchaseOrderRows ==
    [po_number \in {"PO-1", "PO-2", "PO-3", "PO-4", "PO-5"} |->
        [po_number |-> po_number,
         vendor_id |-> IF po_number \in {"PO-2", "PO-5"} THEN "V-2" ELSE "V-1",
         vendor_name |-> "Acme",
         total |-> 100,
         line_items |-> IF po_number = "PO-4" THEN BadText
                        ELSE IF po_number = "PO-3" THEN NullText
                        ELSE JsonText(<<"item">>),
         payment_terms |-> "Net 30"]]

GoodsReceiptRows ==
    [grn_number \in {"GRN-1", "GRN-1b", "GRN-2", "GRN-4"} |->
        [grn_number |-> grn_number,
         po_number |-> CASE grn_number = "GRN-2" -> "PO-2"
                         [] grn_number = "GRN-4" -> "PO-4"
                         [] OTHER -> "PO-1",
         delivery_date |-> "2025-01-01",
         received_items |-> JsonText(<<"item">>)]]

VendorRows ==
    [vendor_id \in {"V-1"} |->
        [vendor_id |-> vendor_id, vendor_name |-> "Acme",
         bank_account |-> "111", routing_number |-> "222", bank_name |-> "Bank",
         invoice_history |-> JsonText(EmptyDict)]]

UuidPool == {"inv-1", "inv-2"}

InvoiceRow(status, processing_log) ==
    [status |-> status, recommendation |-> None, processing_log |-> processing_log,
     invoice_number |-> None, extracted_data |-> NullText,
     vendor_id |-> None, po_number |-> None, grn_number |-> None,
     matching_result |-> NullText, fraud_result |-> NullText,
     processed_at |-> None]

\* db_interface X.get: the row, or None (found = FALSE) when there is none.
NotFound == [found |-> FALSE, row |-> EmptyDict]
Table_get(table, key) ==
    IF key \in DOMAIN table THEN [found |-> TRUE, row |-> table[key]] ELSE NotFound

Invoice_create(table, invoice_id, row) ==
    [x \in DOMAIN table \cup {invoice_id} |-> IF x = invoice_id THEN row ELSE table[x]]

Invoice_update_upsert(table, invoice_id, changes) ==
    LET old == IF invoice_id \in DOMAIN table THEN table[invoice_id]
               ELSE InvoiceRow("PROCESSING", NullText)
    IN  Invoice_create(table, invoice_id,
            [c \in DOMAIN old |-> IF c \in DOMAIN changes THEN changes[c] ELSE old[c]])

Invoice_update_every_row(table, invoice_id, changes) ==
    [x \in DOMAIN table |->
        [c \in DOMAIN table[x] |-> IF c \in DOMAIN changes THEN changes[c] ELSE table[x][c]]]

\* Invoice.update: setattr each keyword on the row when it exists, else nothing.
Invoice_update(table, invoice_id, changes) ==
    IF invoice_id \in DOMAIN table
    THEN [table EXCEPT ![invoice_id] =
            [c \in DOMAIN @ |-> IF c \in DOMAIN changes THEN changes[c] ELSE @[c]]]
    ELSE table

Invoice_delete(table, invoice_id) ==
    [x \in DOMAIN table \ {invoice_id} |-> table[x]]

\* GoodsReceipt.get_by_po_number is filter_by(...).first() with no ORDER BY:
\* any of the rows of that purchase order, or None.
GrnsOfPo(table, po_number) ==
    {g \in DOMAIN table : table[g].po_number = po_number}

(***************************************************************************)
(* What extract_invoice can return.  It never raises: extract_invoice and  *)
(* _fallback_full_extraction both catch every exception, and when every    *)
(* path fails the result is FailedExtraction.  Of the extracted fields the *)
(* pipeline reads invoice_number, po_number and grn_number, at the top     *)
(* level or one level down inside a category mapping.                      *)
(***************************************************************************)
JStr(s) == [t |-> "str", s |-> s]

PipeQualities == {60, 80}

Fields(po, grn, nested) ==
    LET refs == [po_number |-> po, grn_number |-> grn]
        present == Restrict(refs, {k \in DOMAIN refs : refs[k].t # "absent"})
        top == [invoice_number |-> JStr("INV-1")]
    IN  IF nested
        THEN [k \in {"invoice_number", "header"} |->
                IF k = "header" THEN JObj(present) ELSE top[k]]
        ELSE [k \in {"invoice_number"} \cup DOMAIN present |->
                IF k \in DOMAIN present THEN present[k] ELSE top[k]]

ExtractionResult(fields, quality_score) ==
    [fields |-> fields, quality_score |-> quality_score,
     field_count |-> Cardinality(DOMAIN fields)]

FailedExtraction == ExtractionResult(EmptyDict, 0)

PoRefs == {Absent, JStr(""), JStr("PO-1"), JStr("PO-2"), JStr("PO-3"), JStr("PO-4"),
           JStr("PO-5"), JStr("PO-9")}
GrnRefs == {Absent, JStr("GRN-1b"), JStr("GRN-2"), JStr("GRN-9")}

ExtractionResults ==
    {ExtractionResult(Fields(po, grn, FALSE), q) :
        po \in PoRefs, grn \in GrnRefs, q \in PipeQualities}
    \cup {ExtractionResult(Fields(po, grn, TRUE), q) :
        po \in {Absent, JStr("PO-1")}, grn \in {Absent, JStr("GRN-2")},
        q \in PipeQualities}
    \cup {FailedExtraction}

\* get_field of process_invoice_background: the top-level key, else the key
\* inside a nested category mapping, else None.
get_field(fields, field_name) ==
    IF field_name \in DOMAIN fields THEN fields[field_name]
    ELSE LET cats == {c \in DOMAIN fields :
                         fields[c].t = "obj" /\ field_name \in DOMAIN fields[c].d}
         IN  IF cats = {} THEN JNull ELSE fields[CHOOSE c \in cats : TRUE].d[field_name]

\* Python truth of an extracted reference: None and "" are false.
Truthy(j) == j.t = "str" /\ j.s # ""

PyStr(j) == IF j.t = "str" THEN j.s ELSE None

\* The answers of the generative model that pipeline runs are explored with.
PipeMatchResponses ==
    {CallError, NonJson, Json(JList(<<>>)),
     Json(Data(JObj(MatchDict(90, "MATCH")), Absent, JList(Insights(MaxInsights)))),
     Json(Data(JObj(MatchDict(59, "MISMATCH")), Absent, Absent)),
     Json(Data(JObj([overall_status |-> "PARTIAL"]), Absent, JList(<<>>)))}

PipeFraudResponses ==
    {CallError, NonJson,
     Json(Data(Absent, JObj(FraudDict(0, JObj(DefaultChecks))), JList(Insights(MaxInsights)))),
     Json(Data(Absent, JObj(FraudDict(70, Absent)), Absent)),
     Json(Data(Absent, Absent, JNull)),
     Json(Data(Absent, Absent, JList(<<>>)))}

(***************************************************************************)
(* The environment of a behaviour.  FullEnv: every store access may raise, *)
(* every extraction result and every answer above.  NarrowEnv: a store     *)
(* that does not fail and one input for each way a run can go, for         *)
(* behaviours in which two runs interleave.                                *)
(***************************************************************************)
FullEnv ==
    [store_faults |-> TRUE,
     extractions |-> ExtractionResults,
     match_responses |-> PipeMatchResponses,
     fraud_responses |-> PipeFraudResponses]

NarrowEnv ==
    [store_faults |-> FALSE,
     extractions |->
        {ExtractionResult(Fields(po, Absent, FALSE), 80) :
            po \in {Absent, JStr("PO-1"), JStr("PO-2"), JStr("PO-3"), JStr("PO-9")}},
     match_responses |->
        {CallError,
         Json(Data(JObj(MatchDict(85, "MATCH")), Absent, JList(Insights(MaxInsights))))},
     fraud_responses |->
        {Json(Data(Absent, JObj(FraudDict(39, JObj(DefaultChecks))),
                   JList(Insights(MaxInsights))))}]

\* A store access commits (TRUE) or raises (FALSE).
DbOutcomes == IF env.store_faults THEN BOOLEAN ELSE {TRUE}

(***************************************************************************)
(* upload_invoice and delete_invoice.                                      *)
(***************************************************************************)
\* A filename as its parts between the dots.
Filenames == {<<"invoice", "pdf">>, <<"invoice", "PDF">>, <<"scan", "jpeg">>,
              <<"archive", "tar", "gz">>, <<"invoice", "pdf", "exe">>, <<"invoice">>}
FileSizes == {0, 1}

Lower(part) == IF part = "PDF" THEN "pdf" ELSE part

allowed_extensions == {"pdf", "png", "jpg", "jpeg"}

file_ext_inner(filename) ==
    IF Len(filename) > 1 THEN Lower(filename[2]) ELSE ""

\* '.' + filename.lower().split('.')[-1] if '.' in filename else ''
file_ext(filename) ==
    IF Len(filename) > 1 THEN Lower(filename[Len(filename)]) ELSE ""

NoRequest == [filename |-> <<>>, size |-> 0]
NoResponse == [status_code |-> 0, invoice_id |-> None]

InitialLog_empty == <<>>

InitialLog == << Event("UPLOAD", "Invoice uploaded and queued for ADE extraction.") >>

LocalInit ==
    [processing_events |-> <<>>, log_event_bound |-> FALSE,
     extraction_result |-> FailedExtraction,
     po_number |-> JNull, grn_number |-> JNull,
     po |-> NotFound, grn |-> NotFound, vendor |-> NotFound,
     mresp |-> NoResp, fresp |-> NoResp,
     validation_result |-> EmptyDict, exc |-> "none"]

\* Uploads are explored while the pool of fresh ids is not exhausted.
upload_invoice ==
    /\ uuids # {}
    /\ \E filename \in Filenames, size \in FileSizes :
          /\ request' = [filename |-> filename, size |-> size]
          /\ IF file_ext(filename) \notin allowed_extensions \/ size = 0
             THEN /\ response' = [status_code |-> 400, invoice_id |-> None]
                  /\ UNCHANGED <<invoices, uuids, pc, local>>
             ELSE \E invoice_id \in uuids, db_ok \in DbOutcomes :
                     IF db_ok
                     THEN /\ invoices' = Invoice_create(invoices, invoice_id,
                                     InvoiceRow("PROCESSING", json_dumps(InitialLog)))
                          /\ uuids' = uuids \ {invoice_id}
                          /\ pc' = [pc EXCEPT ![invoice_id] = "scheduled"]
                          /\ response' = [status_code |-> 200, invoice_id |-> invoice_id]
                          /\ UNCHANGED local
                     ELSE /\ response' = [status_code |-> 500, invoice_id |-> None]
                          /\ UNCHANGED <<invoices, uuids, pc, local>>
    /\ UNCHANGED <<purchase_orders, goods_receipts, vendors, env>>
    /\ UNCHANGED <<valVars, adeVars>>

delete_invoice(invoice_id) ==
    /\ invoice_id \in DOMAIN invoices
    /\ invoices' = Invoice_delete(invoices, invoice_id)
    /\ UNCHANGED <<purchase_orders, goods_receipts, vendors, uuids, request, response,
                   pc, local, env>>
    /\ UNCHANGED <<valVars, adeVars>>

\* get_stats: the count of all rows and of the rows in each list of statuses.
processing_statuses == {"UPLOADED", "PROCESSING", "EXTRACTING", "MATCHING", "FRAUD_CHECK"}

failure_statuses_failed_only == {"FAILED"}

failure_statuses ==
    {"FAILED", "NO_PO_NUMBER", "NO_PO_FOUND", "NO_GRN_FOUND", "NO_VENDOR_FOUND"}

CountStatus(table, statuses) ==
    Cardinality({x \in DOMAIN table : table[x].status \in statuses})

get_stats(table) ==
    [total_invoices |-> Cardinality(DOMAIN table),
     completed |-> CountStatus(table, {"COMPLETED"}),
     processing |-> CountStatus(table, processing_statuses),
     failed |-> CountStatus(table, failure_statuses)]

\* `json.loads(column) if column else None`: a NULL column is None, a
\* malformed one raises.
LoadColumn(text) ==
    IF text.k = "null" THEN [exc |-> "none", none |-> TRUE, value |-> <<>>]
    ELSE [exc |-> json_loads(text).exc, none |-> FALSE, value |-> json_loads(text).value]

\* The same with json.JSONDecodeError caught: a NULL or malformed column is [].
LoadLog(text) ==
    IF text.k = "null" \/ json_loads(text).exc # "none" THEN <<>>
    ELSE json_loads(text).value

\* get_invoice, the polling read of one row: 404 when the row is missing, the
\* exception of the first column that does not load, else the row's view.
get_invoice(table, invoice_id) ==
    LET invoice == Table_get(table, invoice_id)
        extracted_data == LoadColumn(invoice.row.extracted_data)
        matching_result == LoadColumn(invoice.row.matching_result)
        fraud_result == LoadColumn(invoice.row.fraud_result)
    IN  IF ~invoice.found THEN [exc |-> "HTTPException", status_code |-> 404]
        ELSE IF extracted_data.exc # "none" THEN [exc |-> extracted_data.exc, status_code |-> 500]
        ELSE IF matching_result.exc # "none" THEN [exc |-> matching_result.exc, status_code |-> 500]
        ELSE IF fraud_result.exc # "none" THEN [exc |-> fraud_result.exc, status_code |-> 500]
        ELSE [exc |-> "none", status_code |-> 200,
              invoice_id |-> invoice_id,
              invoice_number |-> invoice.row.invoice_number,
              vendor_id |-> invoice.row.vendor_id,
              po_number |-> invoice.row.po_number,
              status |-> invoice.row.status,
              recommendation |-> invoice.row.recommendation,
              extracted_data |-> extracted_data,
              matching_result |-> matching_result,
              fraud_result |-> fraud_result,
              processed_at |-> invoice.row.processed_at,
              processing_log |-> LoadLog(invoice.row.processing_log)]

(***************************************************************************)
(* process_invoice_background, one step per store access or await.  Every  *)
(* store access either succeeds or raises (db_ok = FALSE); an exception    *)
(* inside the try block moves the task to its except handler.              *)
(***************************************************************************)
Merge(rec, changes) ==
    [c \in DOMAIN rec |-> IF c \in DOMAIN changes THEN changes[c] ELSE rec[c]]

Step(i, new_local, new_invoices, next) ==
    /\ local' = [local EXCEPT ![i] = new_local]
    /\ invoices' = new_invoices
    /\ pc' = [pc EXCEPT ![i] = next]
    /\ UNCHANGED <<purchase_orders, goods_receipts, vendors, uuids, request, response, env>>
    /\ UNCHANGED <<valVars, adeVars>>

Raise(i, exc, changes) ==
    Step(i, Merge(Merge(local[i], changes), [exc |-> exc]), invoices, "except_log")

log_event_twice(i, stage, message, next) ==
    LET events == Append(Append(local[i].processing_events, Event(stage, message)),
                         Event(stage, message)) IN
    \E db_ok \in DbOutcomes :
       IF db_ok
       THEN Step(i, Merge(local[i], [processing_events |-> events]),
                 Invoice_update(invoices, i, [processing_log |-> json_dumps(events)]),
                 next)
       ELSE Raise(i, "OperationalError", [processing_events |-> events])

\* log_event: append the event in memory, then persist the whole log.
log_event(i, stage, message, next) ==
    LET events == Append(local[i].processing_events, Event(stage, message)) IN
    \E db_ok \in DbOutcomes :
       IF db_ok
       THEN Step(i, Merge(local[i], [processing_events |-> events]),
                 Invoice_update(invoices, i, [processing_log |-> json_dumps(events)]),
                 next)
       ELSE Raise(i, "OperationalError", [processing_events |-> events])

\* Invoice.update(invoice_id, **changes), with the locals assigned around it.
update(i, changes, local_changes, next) ==
    \E db_ok \in DbOutcomes :
       IF db_ok
       THEN Step(i, Merge(local[i], local_changes),
                 Invoice_update(invoices, i, changes), next)
       ELSE Raise(i, "OperationalError", EmptyDict)

Start(i) ==
    /\ pc[i] = "scheduled"
    /\ \E db_ok \in DbOutcomes :
          IF ~db_ok THEN Raise(i, "OperationalError", EmptyDict)
          ELSE IF i \notin DOMAIN invoices
          THEN Step(i, local[i], invoices, "returned")
          ELSE LET text == invoices[i].processing_log
                   loaded == json_loads(text)
                   events == IF text.k = "null" \/ loaded.exc # "none"
                             THEN <<>> ELSE loaded.value
               IN  Step(i, Merge(local[i], [processing_events |-> events,
                                            log_event_bound |-> TRUE]),
                        invoices, "log_pipeline")

LogPipeline(i) ==
    /\ pc[i] = "log_pipeline"
    /\ log_event(i, "PIPELINE", "Invoice received. Preparing extraction.",
                 "set_extracting")

SetExtracting(i) ==
    /\ pc[i] = "set_extracting"
    /\ update(i, [status |-> "EXTRACTING"], EmptyDict, "extract")

Extract(i) ==
    /\ pc[i] = "extract"
    /\ \E r \in env.extractions :
          Step(i, Merge(local[i], [extraction_result |-> r]), invoices, "log_extraction")

LogExtraction(i) ==
    /\ pc[i] = "log_extraction"
    /\ log_event(i, "ADE_EXTRACTION", "Extracted fields", "save_extraction")

SaveExtraction_nonempty(i) ==
    /\ pc[i] = "save_extraction"
    /\ update(i, IF local[i].extraction_result.field_count = 0 THEN EmptyDict
                 ELSE [extracted_data |-> json_dumps(local[i].extraction_result)],
              EmptyDict, "save_invoice_number")

SaveExtraction(i) ==
    /\ pc[i] = "save_extraction"
    /\ update(i, [extracted_data |-> json_dumps(local[i].extraction_result)],
              EmptyDict, "save_invoice_number")

SaveInvoiceNumber(i) ==
    /\ pc[i] = "save_invoice_number"
    /\ LET fields == local[i].extraction_result.fields
           invoice_number == get_field(fields, "invoice_number")
           po_number == get_field(fields, "po_number")
           grn_number == get_field(fields, "grn_number")
       IN  update(i, [invoice_number |-> PyStr(invoice_number)],
                  [po_number |-> po_number, grn_number |-> grn_number],
                  IF ~Truthy(po_number) THEN "log_no_po_number" ELSE "set_matching")

LogNoPoNumber(i) ==
    /\ pc[i] = "log_no_po_number"
    /\ log_event(i, "MATCHING", "Failed: No PO number found in extraction.",
                 "set_no_po_number")

SetNoPoNumber(i) ==
    /\ pc[i] = "set_no_po_number"
    /\ update(i, [status |-> "NO_PO_NUMBER", recommendation |-> "REVIEW"],
              EmptyDict, "returned")

SetMatching_skips(i) ==
    /\ pc[i] = "set_matching"
    /\ update(i, [status |-> "FRAUD_CHECK"], EmptyDict, "find_po")

SetMatching(i) ==
    /\ pc[i] = "set_matching"
    /\ update(i, [status |-> "MATCHING"], EmptyDict, "find_po")

FindPo(i) ==
    /\ pc[i] = "find_po"
    /\ \E db_ok \in DbOutcomes :
          IF ~db_ok THEN Raise(i, "OperationalError", EmptyDict)
          ELSE LET po == Table_get(purchase_orders, local[i].po_number.s) IN
               Step(i, Merge(local[i], [po |-> po]), invoices,
                    IF ~po.found THEN "log_no_po_found" ELSE "find_grn")

LogNoPoFound_silent(i) ==
    /\ pc[i] = "log_no_po_found"
    /\ Step(i, local[i], invoices, "set_no_po_found")

LogNoPoFound(i) ==
    /\ pc[i] = "log_no_po_found"
    /\ log_event(i, "MATCHING", "PO not found in database.", "set_no_po_found")

SetNoPoFound_retries(i) ==
    /\ pc[i] = "set_no_po_found"
    /\ update(i, [status |-> "NO_PO_FOUND", recommendation |-> "REVIEW"],
              EmptyDict, "scheduled")

SetNoPoFound(i) ==
    /\ pc[i] = "set_no_po_found"
    /\ update(i, [status |-> "NO_PO_FOUND", recommendation |-> "REVIEW"],
              EmptyDict, "returned")

ResolveGrn_po_first(grn_number, po_number) ==
    LET by_po == GrnsOfPo(goods_receipts, po_number.s)
        exact == IF Truthy(grn_number) THEN Table_get(goods_receipts, grn_number.s)
                 ELSE NotFound
    IN  IF by_po # {} THEN {Table_get(goods_receipts, g) : g \in by_po}
        ELSE {exact}

\* The goods receipts lines 129-135 can resolve: the exact one when grn_number
\* is set and found, else any receipt of the purchase order, else None.
ResolveGrn(grn_number, po_number) ==
    LET exact == IF Truthy(grn_number) THEN Table_get(goods_receipts, grn_number.s)
                 ELSE NotFound
        by_po == GrnsOfPo(goods_receipts, po_number.s)
    IN  IF exact.found THEN {exact}
        ELSE IF by_po = {} THEN {NotFound}
        ELSE {Table_get(goods_receipts, g) : g \in by_po}

FindGrnAndVendor_vendor_first(i) ==
    /\ pc[i] = "find_grn"
    /\ \E db_ok \in DbOutcomes :
          IF ~db_ok THEN Raise(i, "OperationalError", EmptyDict)
          ELSE \E grn \in ResolveGrn(local[i].grn_number, local[i].po_number) :
                  LET vendor == Table_get(vendors, local[i].po.row.vendor_id) IN
                  Step(i, Merge(local[i], [grn |-> grn, vendor |-> vendor]), invoices,
                       IF ~vendor.found THEN "log_no_vendor_found"
                       ELSE IF ~grn.found THEN "log_no_grn_found"
                       ELSE "log_found")

FindGrnAndVendor(i) ==
    /\ pc[i] = "find_grn"
    /\ \E db_ok \in DbOutcomes :
          IF ~db_ok THEN Raise(i, "OperationalError", EmptyDict)
          ELSE \E grn \in ResolveGrn(local[i].grn_number, local[i].po_number) :
                  LET vendor == Table_get(vendors, local[i].po.row.vendor_id) IN
                  Step(i, Merge(local[i], [grn |-> grn, vendor |-> vendor]), invoices,
                       IF ~grn.found THEN "log_no_grn_found"
                       ELSE IF ~vendor.found THEN "log_no_vendor_found"
                       ELSE "log_found")

LogNoGrnFound(i) ==
    /\ pc[i] = "log_no_grn_found"
    /\ log_event(i, "MATCHING", "GRN not found for PO.", "set_no_grn_found")

SetNoGrnFound_no_recommendation(i) ==
    /\ pc[i] = "set_no_grn_found"
    /\ update(i, [status |-> "NO_GRN_FOUND"], EmptyDict, "returned")

SetNoGrnFound(i) ==
    /\ pc[i] = "set_no_grn_found"
    /\ update(i, [status |-> "NO_GRN_FOUND", recommendation |-> "REVIEW"],
              EmptyDict, "returned")

LogNoVendorFound(i) ==
    /\ pc[i] = "log_no_vendor_found"
    /\ log_event(i, "MATCHING", "Vendor not found.", "set_no_vendor_found")

SetNoVendorFound(i) ==
    /\ pc[i] = "set_no_vendor_found"
    /\ update(i, [status |-> "NO_VENDOR_FOUND", recommendation |-> "REVIEW"],
              EmptyDict, "returned")

LogFound(i) ==
    /\ pc[i] = "log_found"
    /\ log_event(i, "MATCHING", "Found PO, GRN, and vendor. Beginning agentic validation.",
                 "set_fraud_check")

SetFraudCheck_unwritten(i) ==
    /\ pc[i] = "set_fraud_check"
    /\ update(i, EmptyDict, EmptyDict, "log_match_agent")

SetFraudCheck(i) ==
    /\ pc[i] = "set_fraud_check"
    /\ update(i, [status |-> "FRAUD_CHECK"], EmptyDict, "log_match_agent")

\* Lines 161-186: the three json.loads of the records' serialized columns.
ParseRecords(po, grn, vendor) ==
    LET line_items == json_loads(OrDefault(po.line_items, <<>>))
        received_items == json_loads(OrDefault(grn.received_items, <<>>))
        invoice_history == json_loads(OrDefault(vendor.invoice_history, EmptyDict))
    IN  IF line_items.exc # "none" THEN line_items.exc
        ELSE IF received_items.exc # "none" THEN received_items.exc
        ELSE invoice_history.exc

LogMatchAgent(i) ==
    /\ pc[i] = "log_match_agent"
    /\ LET exc == ParseRecords(local[i].po.row, local[i].grn.row, local[i].vendor.row) IN
       IF exc # "none" THEN Raise(i, exc, EmptyDict)
       ELSE log_event(i, "MATCH_AGENT", "Starting LangGraph validation agents.", "validate")

Validate(i) ==
    /\ pc[i] = "validate"
    /\ \E mresp \in env.match_responses, fresp \in env.fraud_responses :
          LET r == validate_invoice(local[i].extraction_result.fields,
                                    local[i].po.row, local[i].grn.row, local[i].vendor.row,
                                    local[i].extraction_result.quality_score,
                                    mresp, fresp)
              seen == [mresp |-> mresp,
                       fresp |-> IF _match_agent(EmptyDict, mresp).exc = "none"
                                 THEN fresp ELSE NoResp]
          IN  IF r.exc # "none" THEN Raise(i, r.exc, seen)
              ELSE Step(i, Merge(local[i], [validation_result |-> r.result] @@ seen),
                        invoices, "flush_insights")

\* Lines 199-204: the insights join the in-memory log, which is then persisted.
FlushInsights(i) ==
    /\ pc[i] = "flush_insights"
    /\ LET events == local[i].processing_events
                        \o Get(local[i].validation_result, "insights", <<>>)
       IN  \E db_ok \in DbOutcomes :
              IF db_ok
              THEN Step(i, Merge(local[i], [processing_events |-> events]),
                        Invoice_update(invoices, i, [processing_log |-> json_dumps(events)]),
                        "log_validation")
              ELSE Raise(i, "OperationalError", [processing_events |-> events])

\* Lines 207-215 index validation_result['matching']['overall_score'] and
\* validation_result['fraud']['risk_score']: a missing key raises KeyError.
LogValidation(i) ==
    /\ pc[i] = "log_validation"
    /\ IF \/ "overall_score" \notin DOMAIN local[i].validation_result.matching
          \/ "risk_score" \notin DOMAIN local[i].validation_result.fraud
       THEN Raise(i, "KeyError", EmptyDict)
       ELSE log_event(i, "VALIDATION", "Match, Risk, Recommendation", "set_completed")

SetCompleted_without_grn(i) ==
    /\ pc[i] = "set_completed"
    /\ update(i,
              [vendor_id |-> local[i].po.row.vendor_id,
               po_number |-> local[i].po_number.s,
               matching_result |-> json_dumps(local[i].validation_result.matching),
               fraud_result |-> json_dumps(local[i].validation_result.fraud),
               recommendation |-> local[i].validation_result.recommendation,
               status |-> "COMPLETED",
               processed_at |-> "utcnow",
               processing_log |-> json_dumps(local[i].processing_events)],
              EmptyDict, "returned")

SetCompleted(i) ==
    /\ pc[i] = "set_completed"
    /\ update(i,
              [vendor_id |-> local[i].po.row.vendor_id,
               po_number |-> local[i].po_number.s,
               grn_number |-> local[i].grn.row.grn_number,
               matching_result |-> json_dumps(local[i].validation_result.matching),
               fraud_result |-> json_dumps(local[i].validation_result.fraud),
               recommendation |-> local[i].validation_result.recommendation,
               status |-> "COMPLETED",
               processed_at |-> "utcnow",
               processing_log |-> json_dumps(local[i].processing_events)],
              EmptyDict, "returned")

\* except Exception: log_event("ERROR", ...) inside try/except-pass.  When the
\* exception came before line 58, log_event is unbound and the NameError is
\* swallowed with nothing appended.
ExceptLog(i) ==
    /\ pc[i] = "except_log"
    /\ IF ~local[i].log_event_bound
       THEN Step(i, local[i], invoices, "except_update")
       ELSE LET events == Append(local[i].processing_events,
                                 Event("ERROR", local[i].exc))
            IN  \E db_ok \in DbOutcomes :
                   Step(i, Merge(local[i], [processing_events |-> events]),
                        IF db_ok
                        THEN Invoice_update(invoices, i,
                                            [processing_log |-> json_dumps(events)])
                        ELSE invoices,
                        "except_update")

\* The handler's last statement; an exception here leaves the task.
ExceptUpdate_log_only(i) ==
    /\ pc[i] = "except_update"
    /\ \E db_ok \in DbOutcomes :
          IF db_ok
          THEN Step(i, local[i],
                    Invoice_update(invoices, i,
                        [processing_log |-> json_dumps(local[i].processing_events)]),
                    "returned")
          ELSE Step(i, local[i], invoices, "raised")

ExceptUpdate(i) ==
    /\ pc[i] = "except_update"
    /\ \E db_ok \in DbOutcomes :
          IF db_ok
          THEN Step(i, local[i],
                    Invoice_update(invoices, i,
                        [status |-> "FAILED",
                         processing_log |-> json_dumps(local[i].processing_events)]),
                    "returned")
          ELSE Step(i, local[i], invoices, "raised")

process_invoice_background(i) ==
    \/ Start(i) \/ LogPipeline(i) \/ SetExtracting(i) \/ Extract(i)
    \/ LogExtraction(i) \/ SaveExtraction(i) \/ SaveInvoiceNumber(i)
    \/ LogNoPoNumber(i) \/ SetNoPoNumber(i) \/ SetMatching(i) \/ FindPo(i)
    \/ LogNoPoFound(i) \/ SetNoPoFound(i) \/ FindGrnAndVendor(i)
    \/ LogNoGrnFound(i) \/ SetNoGrnFound(i) \/ LogNoVendorFound(i)
    \/ SetNoVendorFound(i) \/ LogFound(i) \/ SetFraudCheck(i) \/ LogMatchAgent(i)
    \/ Validate(i) \/ FlushInsights(i) \/ LogValidation(i) \/ SetCompleted(i)
    \/ ExceptLog(i) \/ ExceptUpdate(i)

(***************************************************************************)
(* ADEService (services/ade_service.py).  Field values are tagged JSON     *)
(* values; amounts are integers.  A score of _calculate_quality is kept in *)
(* tenths of a point, the precision round(x, 1) leaves.                    *)
(***************************************************************************)
JNum(n) == [t |-> "num", n |-> n]

\* bool(value) of a JSON value.
PyBool(v) ==
    CASE v.t = "str" -> v.s # ""
      [] v.t = "num" -> v.n # 0
      [] v.t = "list" -> v.l # <<>>
      [] v.t = "obj" -> DOMAIN v.d # {}
      [] OTHER -> FALSE

\* value not in [None, '', 0, []]
NotBlank(v) ==
    CASE v.t = "str" -> v.s # ""
      [] v.t = "num" -> v.n # 0
      [] v.t = "list" -> v.l # <<>>
      [] v.t = "obj" -> TRUE
      [] OTHER -> FALSE

\* key.isupper() for the keys of the model.
IsUpper(key) == key \in {"VENDOR INFORMATION"}

\* value.strip().title() for the strings of the model.
StripTitle(str) ==
    CASE str = "acme" -> "Acme"
      [] str = " " -> ""
      [] OTHER -> str

amount_fields == {"subtotal", "tax", "total", "amount_due", "shipping", "handling",
                  "discount"}

\* float(value) if value else 0.0, with 0.0 when float() raises.
ToFloat(v) ==
    CASE v.t = "num" -> v
      [] v.t = "str" /\ v.s = "5" -> JNum(5)
      [] OTHER -> JNum(0)

Flatten_drops_categories(d, cats_last) ==
    [k \in {c \in DOMAIN d : ~(d[c].t = "obj" /\ IsUpper(c))} |-> d[k]]

\* The loops at lines 670-676 of _validate_extraction (and 648-655 of
\* _extract_with_llm): a dict under an upper-case key is merged into the top
\* level.  Where a key occurs at the top level and in a category, the later
\* one in the dict's order wins: cats_last tells whether that is the category.
Flatten(d, cats_last) ==
    LET cats == {c \in DOMAIN d : d[c].t = "obj" /\ IsUpper(c)}
        top == DOMAIN d \ cats
        nested == UNION {DOMAIN d[c].d : c \in cats}
        inner(k) == d[CHOOSE c \in cats : k \in DOMAIN d[c].d].d[k]
    IN  [k \in top \cup nested |->
            IF k \in nested /\ (k \notin top \/ cats_last) THEN inner(k) ELSE d[k]]

\* extracted.get('data', extracted.get('fields', extracted)) is the data of
\* the model's extractions; fields.items() raises on a non-dict.
_validate_extraction(extracted) ==
    IF extracted.data.t # "obj"
    THEN [exc |-> "AttributeError", validated |-> EmptyDict]
    ELSE LET flattened == Flatten(extracted.data.d, extracted.cats_last)
             kept == {k \in DOMAIN flattened : flattened[k].t # "null"}
         IN  [exc |-> "none",
              validated |->
                 [k \in kept |->
                    LET value == flattened[k] IN
                    IF k = "vendor_name" /\ value.t = "str"
                    THEN JStr(StripTitle(value.s))
                    ELSE IF k \in amount_fields THEN ToFloat(value)
                    ELSE value]]

core_fields ==
    {"vendor_name", "vendor_address", "vendor_city", "vendor_state", "vendor_zip",
     "vendor_tax_id", "bank_name", "bank_account", "invoice_number", "invoice_date",
     "due_date", "po_number", "currency", "issue_date", "subtotal", "tax", "total",
     "amount_due", "tax_rate", "discount", "payment_terms", "delivery_address",
     "billing_address", "line_items", "notes"}

critical_fields == {"vendor_name", "invoice_number", "total", "invoice_date", "po_number"}

Min_is_max(a, b) == IF a <= b THEN b ELSE a

Min(a, b) == IF a <= b THEN a ELSE b

\* round(num / den, 1), in tenths.
Round1(num, den) == (20 * num + den) \div (2 * den)

core_populated(validated) ==
    Cardinality({f \in core_fields \cap DOMAIN validated : NotBlank(validated[f])})

critical_populated(validated) ==
    Cardinality({f \in critical_fields \cap DOMAIN validated : PyBool(validated[f])})

line_items_bonus_uncapped(validated) ==
    LET line_items == Get(validated, "line_items", JList(<<>>)) IN
    IF line_items.t = "list" THEN Len(line_items.l) * 2 ELSE 0

line_items_bonus(validated) ==
    LET line_items == Get(validated, "line_items", JList(<<>>)) IN
    IF line_items.t = "list" /\ Len(line_items.l) > 0
    THEN Min(10, Len(line_items.l) * 2)
    ELSE 0

\* total_score is kept as a fraction over len(core_fields) * len(critical_fields);
\* the result is round(min(100, total_score), 1) in tenths.
_calculate_quality(validated) ==
    LET n == Cardinality(core_fields)
        c == Cardinality(critical_fields)
        total_score == core_populated(validated) * 50 * c
                       + critical_populated(validated) * 40 * n
                       + line_items_bonus(validated) * n * c
    IN  Round1(Min(100 * n * c, total_score), n * c)

(***************************************************************************)
(* What the extraction service, the generative model and the local text    *)
(* extraction can hand to extract_invoice.                                 *)
(***************************************************************************)
Items(n) == [k \in 1..n |-> "item"]

SampleValues ==
    {JNull, JStr(""), JStr(" "), JStr("acme"), JStr("5"), JNum(0), JNum(5),
     JObj(EmptyDict)}
    \cup {JList(Items(n)) : n \in 0..MaxLineItems}

SampleFields == {"vendor_name", "total", "po_number", "notes", "line_items", "swift_code"}

FullMap ==
    [f \in core_fields |->
        CASE f = "line_items" -> JList(Items(5))
          [] f \in amount_fields \cup {"tax_rate"} -> JNum(5)
          [] OTHER -> JStr("acme")]

NestedMap == [vendor_name |-> JStr("acme"), po_number |-> JStr("PO-1")]

FieldMaps ==
    {EmptyDict, FullMap}
    \cup {SetItem(base, f, v) :
            base \in {EmptyDict, FullMap}, f \in SampleFields, v \in SampleValues}
    \cup {SetItem(base, "VENDOR INFORMATION", JObj(NestedMap)) :
            base \in {EmptyDict, [vendor_name |-> JStr("")], [notes |-> JStr("acme")]}}
    \cup {[header |-> JObj(NestedMap)],
          [total |-> JStr("acme")],
          SetItem(EmptyDict, "VENDOR INFORMATION", JObj([total |-> JStr("acme")]))}

HasCategory(data) ==
    data.t = "obj" /\ \E k \in DOMAIN data.d : data.d[k].t = "obj" /\ IsUpper(k)

\* A raw extraction: its data and, where it has a category, the dict order.
Extractions ==
    {[data |-> JObj(m), cats_last |-> b] : m \in FieldMaps, b \in BOOLEAN}
    \cup {[data |-> JList(<<>>), cats_last |-> FALSE]}

RawExtractions == {e \in Extractions : e.cats_last => HasCategory(e.data)}

NoExtracted == [data |-> JNull, cats_last |-> FALSE]

\* A document text, with the fields the four regular expressions of
\* _fallback_extraction find in it.
RegexMaps ==
    {EmptyDict,
     [invoice_number |-> JStr("5"), po_number |-> JStr("PO-1"), total |-> JNum(5)]}

EmptyMarkdown == [text |-> "", regex |-> EmptyDict]
Markdowns == {[text |-> "text", regex |-> m] : m \in RegexMaps}

_fallback_extraction(markdown) == [data |-> JObj(markdown.regex), cats_last |-> FALSE]

ImportError == [call |-> "import_error", parses |-> FALSE, value |-> JNull]

AdeLlmResponses ==
    {ImportError, CallError, NonJson, Json(JList(<<>>))}
    \cup {Json(JObj(m)) : m \in {EmptyDict, FullMap, [total |-> JStr("5")],
                                  SetItem(EmptyDict, "VENDOR INFORMATION", JObj(NestedMap))}}

\* _extract_with_llm from its try block on: every exception of the call, the
\* parse or the flattening gives the regex extraction of the markdown.
_extract_with_llm(markdown, resp) ==
    IF resp.call = "ok" /\ resp.parses /\ resp.value.t = "obj"
    THEN [data |-> JObj(Flatten(resp.value.d, TRUE)), cats_last |-> FALSE]
    ELSE _fallback_extraction(markdown)

\* _extract_from_parsed_doc from its try block on: the parsed value is
\* returned as it is.
_extract_from_parsed_doc(markdown, resp) ==
    IF resp.call = "ok" /\ resp.parses
    THEN [data |-> resp.value, cats_last |-> TRUE]
    ELSE _fallback_extraction(markdown)

max_retries_two == 1 + 1

max_retries == 3

retry_delay == 2

Call(op, ok) == [op |-> op, ok |-> ok]

AdeLocals ==
    [markdown |-> EmptyMarkdown, attempt |-> 0, slept |-> 0,
     extracted |-> NoExtracted, calls |-> <<>>]

AdeStep(next, changes, call) ==
    /\ apc' = next
    /\ astate' = Merge(Merge(astate, changes), [calls |-> Append(astate.calls, call)])
    /\ aout' = aout
    /\ UNCHANGED <<pipeVars, valVars>>

AdeReturn(result, call) ==
    /\ apc' = "returned"
    /\ astate' = [astate EXCEPT !.calls = Append(@, call)]
    /\ aout' = [exc |-> "none", result |-> result]
    /\ UNCHANGED <<pipeVars, valVars>>

\* Lines 125-150: without the library or the key the local fallback is used at
\* once; an error writing the temporary file or creating the client goes to
\* the outer handler, which uses it too.
AdeSetup ==
    /\ apc = "start"
    /\ \E outcome \in {"ok", "unavailable", "error"} :
          AdeStep(IF outcome = "ok" THEN "parse" ELSE "fallback_text",
                  EmptyDict, Call("setup", outcome = "ok"))

\* client.parse (line 156).
AdeParse ==
    /\ apc = "parse"
    /\ \/ \E markdown \in Markdowns :
             AdeStep("extract", [markdown |-> markdown, attempt |-> 1],
                     Call("parse", TRUE))
       \/ AdeStep("fallback_text", EmptyDict, Call("parse", FALSE))

AdeExtractAttempt_no_break ==
    /\ apc = "extract"
    /\ \/ \E extracted \in RawExtractions :
             AdeStep(IF astate.attempt = max_retries THEN "finish" ELSE "sleep",
                     [extracted |-> extracted], Call("extract", TRUE))
       \/ AdeStep(IF astate.attempt = max_retries THEN "llm" ELSE "sleep",
                  EmptyDict, Call("extract", FALSE))

\* One pass of the retry loop (lines 168-185) up to its sleep or its fallback.
AdeExtractAttempt ==
    /\ apc = "extract"
    /\ \/ \E extracted \in RawExtractions :
             AdeStep("finish", [extracted |-> extracted], Call("extract", TRUE))
       \/ AdeStep(IF astate.attempt = max_retries THEN "llm" ELSE "sleep",
                  EmptyDict, Call("extract", FALSE))

\* await asyncio.sleep(2), then the next attempt.
AdeSleep ==
    /\ apc = "sleep"
    /\ AdeStep("extract", [attempt |-> astate.attempt + 1,
                           slept |-> astate.slept + retry_delay],
               Call("sleep", TRUE))

\* _extract_with_llm(markdown) at line 180; the import at line 569 is outside
\* its try block.
AdeExtractWithLlm ==
    /\ apc = "llm"
    /\ \E resp \in AdeLlmResponses :
          IF resp = ImportError
          THEN AdeStep("fallback_text", EmptyDict, Call("llm", FALSE))
          ELSE LET ok == resp.call = "ok" /\ resp.parses /\ resp.value.t = "obj" IN
               /\ apc' = "finish"
               /\ astate' = [astate EXCEPT
                     !.extracted = _extract_with_llm(astate.markdown, resp),
                     !.calls = IF ok THEN Append(@, Call("llm", TRUE))
                               ELSE @ \o << Call("llm", FALSE), Call("regex", TRUE) >>]
               /\ aout' = aout
               /\ UNCHANGED <<pipeVars, valVars>>

\* Lines 188-203.
AdeFinish ==
    /\ apc = "finish"
    /\ LET v == _validate_extraction(astate.extracted) IN
       IF v.exc # "none"
       THEN AdeStep("fallback_text", EmptyDict, Call("validate", FALSE))
       ELSE AdeReturn(ExtractionResult(v.validated, _calculate_quality(v.validated)),
                      Call("validate", TRUE))

\* _fallback_full_extraction: _fallback_text_extraction gives the text of the
\* file, or "" when PyPDF2 fails.
FallbackText ==
    /\ apc = "fallback_text"
    /\ \/ \E markdown \in Markdowns :
             AdeStep("fallback_llm", [markdown |-> markdown], Call("text", TRUE))
       \/ AdeStep("fallback_llm", [markdown |-> EmptyMarkdown], Call("text", FALSE))

\* _extract_from_parsed_doc(None, markdown) at line 880.
FallbackLlm ==
    /\ apc = "fallback_llm"
    /\ \E resp \in AdeLlmResponses :
          IF resp = ImportError
          THEN AdeReturn(FailedExtraction, Call("llm", FALSE))
          ELSE LET ok == resp.call = "ok" /\ resp.parses IN
               /\ apc' = "fallback_finish"
               /\ astate' = [astate EXCEPT
                     !.extracted = _extract_from_parsed_doc(astate.markdown, resp),
                     !.calls = IF ok THEN Append(@, Call("llm", TRUE))
                               ELSE @ \o << Call("llm", FALSE), Call("regex", TRUE) >>]
               /\ aout' = aout
               /\ UNCHANGED <<pipeVars, valVars>>

FallbackFinish_unguarded ==
    /\ apc = "fallback_finish"
    /\ LET v == _validate_extraction(astate.extracted) IN
       IF v.exc # "none"
       THEN /\ apc' = "raised"
            /\ astate' = [astate EXCEPT !.calls = Append(@, Call("validate", FALSE))]
            /\ aout' = [exc |-> v.exc, result |-> EmptyDict]
            /\ UNCHANGED <<pipeVars, valVars>>
       ELSE AdeReturn(ExtractionResult(v.validated, _calculate_quality(v.validated)),
                      Call("validate", TRUE))

\* Lines 883-905.
FallbackFinish ==
    /\ apc = "fallback_finish"
    /\ LET v == _validate_extraction(astate.extracted) IN
       IF v.exc # "none"
       THEN AdeReturn(FailedExtraction, Call("validate", FALSE))
       ELSE AdeReturn(ExtractionResult(v.validated, _calculate_quality(v.validated)),
                      Call("validate", TRUE))

extract_invoice ==
    \/ AdeSetup \/ AdeParse \/ AdeExtractAttempt \/ AdeSleep \/ AdeExtractWithLlm
    \/ AdeFinish \/ FallbackText \/ FallbackLlm \/ FallbackFinish

AdeIdle ==
    /\ apc = "idle"
    /\ astate = AdeLocals
    /\ aout = NoResult

AdeInit ==
    /\ apc = "start"
    /\ astate = AdeLocals
    /\ aout = NoResult

(***************************************************************************)
(* Specifications.                                                         *)
(***************************************************************************)
PipeIdle ==
    /\ invoices = EmptyDict
    /\ purchase_orders = PurchaseOrderRows
    /\ goods_receipts = GoodsReceiptRows
    /\ vendors = VendorRows
    /\ uuids = {"inv-1"}
    /\ env = FullEnv
    /\ request = NoRequest
    /\ response = NoResponse
    /\ pc = [i \in UuidPool |-> "idle"]
    /\ local = [i \in UuidPool |-> LocalInit]

ValIdle ==
    /\ vpc = "idle"
    /\ vstate = EmptyDict
    /\ vin = [extraction_quality |-> 0, mresp |-> NoResp, fresp |-> NoResp]
    /\ vout = NoResult

\* The service: uploads, their background tasks, deletions.
Init == PipeIdle /\ ValIdle /\ AdeIdle

Next ==
    \/ upload_invoice
    \/ \E i \in UuidPool : process_invoice_background(i)
    \/ \E i \in UuidPool : delete_invoice(i)

Spec == Init /\ [][Next]_vars

\* Two uploads whose background tasks interleave.
InitConcurrent ==
    /\ invoices = EmptyDict
    /\ purchase_orders = PurchaseOrderRows
    /\ goods_receipts = GoodsReceiptRows
    /\ vendors = VendorRows
    /\ uuids = UuidPool
    /\ env = NarrowEnv
    /\ request = NoRequest
    /\ response = NoResponse
    /\ pc = [i \in UuidPool |-> "idle"]
    /\ local = [i \in UuidPool |-> LocalInit]
    /\ ValIdle
    /\ AdeIdle

SpecConcurrent == InitConcurrent /\ [][Next]_vars

\* A background task that was added runs to its end: the server awaits it after
\* sending the response.
InitFair ==
    /\ invoices = EmptyDict
    /\ purchase_orders = PurchaseOrderRows
    /\ goods_receipts = GoodsReceiptRows
    /\ vendors = VendorRows
    /\ uuids = {"inv-1"}
    /\ env = NarrowEnv
    /\ request = NoRequest
    /\ response = NoResponse
    /\ pc = [i \in UuidPool |-> "idle"]
    /\ local = [i \in UuidPool |-> LocalInit]
    /\ ValIdle
    /\ AdeIdle

SpecFair ==
    /\ InitFair
    /\ [][Next]_vars
    /\ \A i \in UuidPool : WF_vars(process_invoice_background(i))

\* One call of validate_invoice on its own, for every answer of the model.
InitValidate == PipeIdle /\ VInit /\ AdeIdle

SpecValidate == InitValidate /\ [][VNext]_vars

\* One call of extract_invoice on its own, for every outcome of the service,
\* the generative model and the local text extraction.
InitExtract == PipeIdle /\ ValIdle /\ AdeInit

SpecExtract == InitExtract /\ [][extract_invoice]_vars

(***************************************************************************)
(* Properties.                                                             *)
(***************************************************************************)
Terminal == {"COMPLETED", "FAILED", "NO_PO_NUMBER", "NO_PO_FOUND", "NO_GRN_FOUND",
             "NO_VENDOR_FOUND"}

Recommendations == {"APPROVE", "NEEDS_REVIEW", "REJECT"}

IsPrefix(a, b) == Len(a) <= Len(b) /\ SubSeq(b, 1, Len(a)) = a

Stages(events) == [k \in 1..Len(events) |-> events[k].stage]

PersistedLog(row) == row.processing_log.v

\* C1: once the background task of an uploaded invoice has returned, the
\* persisted status of the invoice is one of the six terminal statuses (never
\* PROCESSING, EXTRACTING, MATCHING or FRAUD_CHECK).
C1_TerminalWhenReturned ==
    \A i \in UuidPool :
        (pc[i] = "returned" /\ i \in DOMAIN invoices)
            => invoices[i].status \in Terminal

\* A task that went through its except handler and returned.
C1_Witness ==
    \E i \in UuidPool :
        /\ pc[i] = "returned" /\ i \in DOMAIN invoices
        /\ local[i].exc # "none"
        /\ invoices[i].status = "FAILED"

\* C2: every write of processing_log stores a sequence that has the sequence
\* persisted before it as a prefix.
C2_LogAppendOnly ==
    [][\A i \in DOMAIN invoices \cap DOMAIN invoices' :
          IsPrefix(PersistedLog(invoices[i]), PersistedLog(invoices'[i]))]_vars

ScoresPresent ==
    /\ "overall_score" \in DOMAIN vout.result.matching
    /\ "risk_score" \in DOMAIN vout.result.fraud

\* C3: the recommendation is the ordered rule on (quality, match, risk), here
\* as the region of the triple each outcome covers: NEEDS_REVIEW when quality
\* < 70 whatever risk and match are, else REJECT when risk >= 70 or match < 60,
\* else NEEDS_REVIEW when risk >= 40 or match < 85, else APPROVE.
C3_RecommendationRule ==
    (vpc = "returned" /\ ScoresPresent) =>
        LET q == vin.extraction_quality
            m == vout.result.matching.overall_score
            r == vout.result.fraud.risk_score
            rec == vout.result.recommendation
        IN  /\ rec \in Recommendations
            /\ rec = "APPROVE" <=> (q >= 70 /\ r < 40 /\ m >= 85)
            /\ rec = "REJECT" <=> (q >= 70 /\ (r >= 70 \/ m < 60))
            /\ rec = "NEEDS_REVIEW" <=>
                  (q < 70 \/ (r < 70 /\ m >= 60 /\ (r >= 40 \/ m < 85)))

\* quality 60, risk 0, match 100: the quality gate beats a perfect match.
C3_Witness ==
    /\ vpc = "returned" /\ ScoresPresent
    /\ vin.extraction_quality = 60
    /\ vout.result.matching.overall_score = 100
    /\ vout.result.fraud.risk_score = 0
    /\ vout.result.recommendation = "NEEDS_REVIEW"

Triple(q, r, m) ==
    /\ vpc = "returned" /\ ScoresPresent
    /\ vin.extraction_quality = q
    /\ vout.result.fraud.risk_score = r
    /\ vout.result.matching.overall_score = m

\* C4 as stated: the four boundary inputs (quality, risk, match): (70, 69, 85)
\* gives APPROVE, (70, 70, 100) and (70, 0, 59) give REJECT, (70, 45, 90)
\* gives NEEDS_REVIEW.
C4_Boundaries ==
    /\ Triple(70, 69, 85) => vout.result.recommendation = "APPROVE"
    /\ Triple(70, 70, 100) => vout.result.recommendation = "REJECT"
    /\ Triple(70, 0, 59) => vout.result.recommendation = "REJECT"
    /\ Triple(70, 45, 90) => vout.result.recommendation = "NEEDS_REVIEW"

\* C4, amended: (70, 69, 85) gives NEEDS_REVIEW, because risk 69 is at least
\* 40; the APPROVE boundary is (70, 39, 85).  The other three inputs are as
\* stated: (70, 70, 100) and (70, 0, 59) give REJECT, (70, 45, 90) gives
\* NEEDS_REVIEW.
C4_BoundariesAmended ==
    /\ Triple(70, 69, 85) => vout.result.recommendation = "NEEDS_REVIEW"
    /\ Triple(70, 39, 85) => vout.result.recommendation = "APPROVE"
    /\ Triple(70, 70, 100) => vout.result.recommendation = "REJECT"
    /\ Triple(70, 0, 59) => vout.result.recommendation = "REJECT"
    /\ Triple(70, 45, 90) => vout.result.recommendation = "NEEDS_REVIEW"

C4_Witness == Triple(70, 69, 85) /\ vout.result.recommendation = "NEEDS_REVIEW"

\* An answer of the expected shape: an object whose `key` is an object that
\* carries `score`, with insights (when given) a list.
Conformant(resp, key, score) ==
    /\ resp.call = "ok" /\ resp.parses /\ resp.value.t = "obj"
    /\ key \in DOMAIN resp.value.d
    /\ resp.value.d[key].t = "obj"
    /\ score \in DOMAIN resp.value.d[key].d
    /\ "insights" \in DOMAIN resp.value.d => resp.value.d.insights.t = "list"

\* C5: a failed generative call of the Matching Agent or of the Fraud Agent
\* (the other agent's answer being a failure too or conformant) never surfaces
\* as a pipeline failure: the run, when no store access raises, ends COMPLETED
\* with a recommendation.
C5_AgentFailureAbsorbed ==
    \A i \in UuidPool :
        ( /\ pc[i] = "returned" /\ i \in DOMAIN invoices
          /\ CallFailed(local[i].mresp) \/ CallFailed(local[i].fresp)
          /\ CallFailed(local[i].mresp)
                \/ Conformant(local[i].mresp, "matching", "overall_score")
          /\ CallFailed(local[i].fresp)
                \/ Conformant(local[i].fresp, "fraud", "risk_score")
          /\ local[i].exc # "OperationalError" )
        => /\ invoices[i].status = "COMPLETED"
           /\ invoices[i].recommendation \in Recommendations

MatchAgentDone == vpc \in {"fraud_agent", "assemble", "returned", "raised"}
FraudAgentDone == vpc \in {"assemble", "returned", "raised"}

\* C6: after a failed generative call the Matching Agent stores a
\* MatchingResult whose three scores are 0 and whose three statuses are UNKNOWN.
C6_MatchFallbackShape ==
    (MatchAgentDone /\ CallFailed(vin.mresp)) =>
        LET m == vstate.matching IN
        /\ m.t = "obj"
        /\ \A k \in {"invoice_po_score", "invoice_grn_score", "overall_score"} :
              k \in DOMAIN m.d /\ m.d[k] = 0
        /\ \A k \in {"invoice_po_status", "invoice_grn_status", "overall_status"} :
              k \in DOMAIN m.d /\ m.d[k] = "UNKNOWN"

\* C7: after a failed generative call the Fraud Agent stores exactly the fixed
\* fallback: risk_score 50, risk_level MEDIUM, one SYSTEM signal with
\* risk_points 20, and the four checks_performed all false.
C7_FraudFallback ==
    (FraudAgentDone /\ CallFailed(vin.fresp)) =>
        LET f == vstate.fraud.d IN
        /\ DOMAIN f = {"risk_score", "risk_level", "signals", "checks_performed"}
        /\ f.risk_score = 50
        /\ f.risk_level = "MEDIUM"
        /\ Len(f.signals) = 1
        /\ f.signals[1].type = "SYSTEM"
        /\ f.signals[1].risk_points = 20
        /\ DOMAIN f.checks_performed = CheckNames
        /\ \A c \in CheckNames : f.checks_performed[c] = FALSE

C7_Witness ==
    /\ vpc = "returned"
    /\ CallFailed(vin.fresp)
    /\ vout.result.fraud.risk_score = 50
    /\ vout.result.fraud.checks_performed["velocity"] = FALSE

\* The outcomes of the generative call C8 lists: call error, non-JSON text,
\* JSON that is not an object, an object without the three keys.
ListedOutcome(resp) ==
    \/ CallFailed(resp)
    \/ resp.call = "ok" /\ resp.parses /\ resp.value.t # "obj"
    \/ resp.call = "ok" /\ resp.parses /\ resp.value.t = "obj"
          /\ DOMAIN resp.value.d = {}

\* C8: for each listed outcome of the generative call, neither agent lets an
\* exception leave its graph node.
C8_AgentsNeverRaise ==
    (ListedOutcome(vin.mresp) /\ (vin.fresp = NoResp \/ ListedOutcome(vin.fresp)))
        => vpc # "graph_raised"

\* checks_performed as the answer carried it (no key when it carried none).
SentChecks(resp) ==
    IF /\ resp.call = "ok" /\ resp.parses /\ resp.value.t = "obj"
       /\ "fraud" \in DOMAIN resp.value.d
       /\ resp.value.d.fraud.t = "obj"
       /\ "checks_performed" \in DOMAIN resp.value.d.fraud.d
    THEN resp.value.d.fraud.d.checks_performed
    ELSE EmptyDict

\* C9: every FraudResult has exactly the four checks_performed keys, and each
\* key the answer left out is present with value true.
C9_ChecksComplete ==
    FraudAgentDone =>
        LET checks == vstate.fraud.d.checks_performed IN
        /\ DOMAIN checks = CheckNames
        /\ ~CallFailed(vin.fresp) =>
              \A c \in CheckNames \ DOMAIN SentChecks(vin.fresp) : checks[c] = TRUE

PoAbsentRun(i) ==
    /\ pc[i] = "returned" /\ i \in DOMAIN invoices
    /\ Truthy(local[i].po_number)
    /\ local[i].po_number.s \notin DOMAIN purchase_orders
    /\ local[i].exc = "none"

TransitionsTo ==
    [s \in Terminal \cup {"EXTRACTING", "MATCHING", "FRAUD_CHECK"} |->
        CASE s = "EXTRACTING" -> 1
          [] s \in {"MATCHING", "NO_PO_NUMBER"} -> 2
          [] s \in {"FRAUD_CHECK", "NO_PO_FOUND", "NO_GRN_FOUND", "NO_VENDOR_FOUND"} -> 3
          [] OTHER -> 4]

StatusChanges(i) ==
    /\ i \in DOMAIN invoices /\ i \in DOMAIN invoices'
    /\ invoices'[i].status # invoices[i].status

EventsAt ==
    [s \in {"EXTRACTING", "MATCHING", "FRAUD_CHECK", "NO_PO_NUMBER", "NO_PO_FOUND",
            "NO_GRN_FOUND", "NO_VENDOR_FOUND"} |->
        CASE s = "EXTRACTING" -> <<"UPLOAD", "PIPELINE">>
          [] s = "MATCHING" -> <<"UPLOAD", "PIPELINE", "ADE_EXTRACTION">>
          [] OTHER -> <<"UPLOAD", "PIPELINE", "ADE_EXTRACTION", "MATCHING">>]

Finished(i) == pc[i] \in {"returned", "raised"}

C13_ErrorsEndFailed ==
    \A i \in UuidPool :
        (local[i].exc # "none" /\ pc[i] \notin {"except_log", "except_update"})
           => /\ pc[i] = "returned"
              /\ i \in DOMAIN invoices =>
                    LET stages == Stages(PersistedLog(invoices[i])) IN
                    /\ invoices[i].status = "FAILED"
                    /\ PersistedLog(invoices[i]) = local[i].processing_events
                    /\ Len(stages) >= 2
                    /\ stages[1] = "UPLOAD"
                    /\ stages[Len(stages)] = "ERROR"

\* The references a run extracted, and what the store holds for them.
ExtractedRef(i, name) == get_field(local[i].extraction_result.fields, name)

HasPoNumber(i) == Truthy(ExtractedRef(i, "po_number"))

PoFound(i) ==
    HasPoNumber(i) /\ ExtractedRef(i, "po_number").s \in DOMAIN purchase_orders

GrnResolved(i) ==
    /\ PoFound(i)
    /\ \/ /\ Truthy(ExtractedRef(i, "grn_number"))
          /\ ExtractedRef(i, "grn_number").s \in DOMAIN goods_receipts
       \/ \E g \in DOMAIN goods_receipts :
             goods_receipts[g].po_number = ExtractedRef(i, "po_number").s

VendorFound(i) ==
    /\ PoFound(i)
    /\ purchase_orders[ExtractedRef(i, "po_number").s].vendor_id \in DOMAIN vendors

EndedNormally(i) ==
    pc[i] = "returned" /\ i \in DOMAIN invoices /\ local[i].exc = "none"

NoStates == {"NO_PO_NUMBER", "NO_PO_FOUND", "NO_GRN_FOUND", "NO_VENDOR_FOUND"}

\* C14: the status of a run that ended without an error is decided by the
\* first failing check in the order po_number extracted, PO found, GRN resolved
\* by either path, vendor found; when all four pass it is no NO_* status.
C14_FirstFailingCheck ==
    \A i \in UuidPool :
        EndedNormally(i) =>
            /\ ~HasPoNumber(i) => invoices[i].status = "NO_PO_NUMBER"
            /\ (HasPoNumber(i) /\ ~PoFound(i)) => invoices[i].status = "NO_PO_FOUND"
            /\ (PoFound(i) /\ ~GrnResolved(i)) => invoices[i].status = "NO_GRN_FOUND"
            /\ (PoFound(i) /\ GrnResolved(i) /\ ~VendorFound(i))
                  => invoices[i].status = "NO_VENDOR_FOUND"
            /\ (PoFound(i) /\ GrnResolved(i) /\ VendorFound(i))
                  => invoices[i].status \notin NoStates

\* A purchase order with neither goods receipt nor vendor: NO_GRN_FOUND.
C14_Witness ==
    \E i \in UuidPool :
        /\ EndedNormally(i)
        /\ PoFound(i) /\ ~GrnResolved(i) /\ ~VendorFound(i)
        /\ invoices[i].status = "NO_GRN_FOUND"

C16_ExactGrnPreferred ==
    \A i \in UuidPool :
        local[i].grn.found =>
            LET ref == ExtractedRef(i, "grn_number")
                grn_number == local[i].grn.row.grn_number
            IN  /\ IF Truthy(ref) /\ ref.s \in DOMAIN goods_receipts
                   THEN grn_number = ref.s
                   ELSE goods_receipts[grn_number].po_number
                           = ExtractedRef(i, "po_number").s
                /\ (i \in DOMAIN invoices /\ invoices[i].status = "COMPLETED")
                      => invoices[i].grn_number = grn_number

\* PO-1 has GRN-1 and GRN-1b on file; the invoice names GRN-1b.
C16_Witness ==
    \E i \in DOMAIN invoices :
        /\ invoices[i].status = "COMPLETED"
        /\ ExtractedRef(i, "po_number") = JStr("PO-1")
        /\ ExtractedRef(i, "grn_number") = JStr("GRN-1b")
        /\ \E g \in DOMAIN goods_receipts :
              g # "GRN-1b" /\ goods_receipts[g].po_number = "PO-1"
        /\ invoices[i].grn_number = "GRN-1b"

\* Validation has just yielded quality >= 80, match >= 85 and risk < 40 for a
\* run whose PO, GRN and vendor were found.
GoodScores(i) ==
    /\ pc[i] = "flush_insights"
    /\ local[i].po.found /\ local[i].grn.found /\ local[i].vendor.found
    /\ local[i].extraction_result.quality_score >= 80
    /\ "overall_score" \in DOMAIN local[i].validation_result.matching
    /\ local[i].validation_result.matching.overall_score >= 85
    /\ "risk_score" \in DOMAIN local[i].validation_result.fraud
    /\ local[i].validation_result.fraud.risk_score < 40

Approved(i) ==
    /\ i \in DOMAIN invoices
    /\ invoices[i].status = "COMPLETED"
    /\ invoices[i].recommendation = "APPROVE"

\* C17: a run whose PO, GRN and vendor exist and which yields quality >= 80,
\* match >= 85 and risk < 40 reaches COMPLETED with recommendation APPROVE
\* (unless the invoice is deleted before the run ends).
C17_ApproveScenario ==
    \A i \in UuidPool : GoodScores(i) ~> (Approved(i) \/ i \notin DOMAIN invoices)

\* Approved at the boundary values quality 80, match 85, risk 39.
C17_Witness ==
    \E i \in UuidPool :
        /\ Approved(i)
        /\ local[i].extraction_result.quality_score = 80
        /\ invoices[i].matching_result.v.overall_score = 85
        /\ invoices[i].fraud_result.v.risk_score = 39

\* An upload with an empty payload, or whose filename ends in no extension or
\* in one other than pdf, png, jpg, jpeg.
BadUpload(req) ==
    \/ req.size = 0
    \/ req.filename \in {<<"archive", "tar", "gz">>, <<"invoice", "pdf", "exe">>,
                         <<"invoice">>}

\* C18: an upload with an empty payload or a filename whose extension is not
\* pdf, png, jpg or jpeg (or that has no extension) is answered 400 in the
\* same step: no invoice row is created, no run is scheduled or advanced, and
\* the invoice, purchase-order, goods-receipt and vendor tables are unchanged.
C18_BadUploadRejected ==
    [][(BadUpload(request') /\ (request' # request \/ response' # response))
          => /\ response' = [status_code |-> 400, invoice_id |-> None]
             /\ UNCHANGED <<invoices, purchase_orders, goods_receipts, vendors,
                            pc, local, uuids>>]_vars

\* invoice.pdf.exe with a non-empty payload was rejected while an invoice row
\* was on file.
C18_Witness ==
    /\ request = [filename |-> <<"invoice", "pdf", "exe">>, size |-> 1]
    /\ response.status_code = 400
    /\ DOMAIN invoices # {}

\* C19: the step that creates an invoice row creates it with status
\* PROCESSING and a log of exactly one UPLOAD event, answers the caller with
\* the id, and schedules a run that has not yet taken a step; the row stays so
\* until the run starts; and every write that changes a row finds UPLOAD as
\* the first event of the stored log.
C19_UploadSeedsLog ==
    [][\A i \in UuidPool :
          /\ (i \notin DOMAIN invoices /\ i \in DOMAIN invoices') =>
                /\ invoices'[i].status = "PROCESSING"
                /\ Stages(PersistedLog(invoices'[i])) = <<"UPLOAD">>
                /\ response' = [status_code |-> 200, invoice_id |-> i]
                /\ pc[i] = "idle" /\ pc'[i] = "scheduled"
                /\ local'[i] = LocalInit
          /\ (pc'[i] = "scheduled" /\ i \in DOMAIN invoices') =>
                /\ invoices'[i].status = "PROCESSING"
                /\ Stages(PersistedLog(invoices'[i])) = <<"UPLOAD">>
          /\ (i \in DOMAIN invoices /\ i \in DOMAIN invoices'
                 /\ invoices'[i] # invoices[i]) =>
                /\ pc[i] \notin {"idle", "scheduled"}
                /\ Len(PersistedLog(invoices[i])) > 0
                /\ Stages(PersistedLog(invoices[i]))[1] = "UPLOAD"]_vars

\* The run's first write, the PIPELINE event, has been appended after UPLOAD.
C19_Witness ==
    \E i \in DOMAIN invoices :
        /\ pc[i] = "set_extracting"
        /\ invoices[i].status = "PROCESSING"
        /\ Stages(PersistedLog(invoices[i])) = <<"UPLOAD", "PIPELINE">>
        /\ response = [status_code |-> 200, invoice_id |-> i]

\* A step of the background run of invoice i.
RunStep(i) == pc[i] # "idle" /\ pc'[i] # pc[i]

\* The row of invoice j, if any.
RowOf(j) == {invoices[k] : k \in DOMAIN invoices \cap {j}}

Repeat(x, n) == [k \in 1..n |-> x]

\* Status, recommendation and stages of the log with which a run that executes
\* alone, with no store fault, ends for an extracted po_number and an answer
\* of the Matching Agent's call.
AloneOutcome(po_number, match_response) ==
    LET early(status) == [status |-> status, recommendation |-> "REVIEW",
                          stages |-> EventsAt[status]]
    IN  CASE ~Truthy(po_number) -> early("NO_PO_NUMBER")
          [] po_number = JStr("PO-9") -> early("NO_PO_FOUND")
          [] po_number = JStr("PO-3") -> early("NO_GRN_FOUND")
          [] po_number = JStr("PO-2") -> early("NO_VENDOR_FOUND")
          [] OTHER ->
               IF match_response = CallError
               THEN [status |-> "FAILED", recommendation |-> None,
                     stages |-> EventsAt["FRAUD_CHECK"] \o <<"MATCH_AGENT", "MATCH_AGENT">>
                                \o Repeat("FRAUD_AGENT", MaxInsights) \o <<"ERROR">>]
               ELSE [status |-> "COMPLETED", recommendation |-> "APPROVE",
                     stages |-> EventsAt["FRAUD_CHECK"] \o <<"MATCH_AGENT">>
                                \o Repeat("MATCH_AGENT", MaxInsights)
                                \o Repeat("FRAUD_AGENT", MaxInsights)
                                \o <<"VALIDATION">>]

SameAsAlone(i) ==
    (Finished(i) /\ i \in DOMAIN invoices) =>
        [status |-> invoices[i].status,
         recommendation |-> invoices[i].recommendation,
         stages |-> Stages(PersistedLog(invoices[i]))]
          = AloneOutcome(ExtractedRef(i, "po_number"), local[i].mresp)

\* C20: under any interleaving of two runs, a step of one run leaves the row
\* of every other invoice (its existence and every column) and the
\* purchase-order, goods-receipt and vendor tables unchanged, and each run
\* ends with the status, recommendation and log stages with which it ends
\* when it executes alone on the same inputs.
C20_RunsIndependent ==
    [][/\ \A i \in UuidPool :
             RunStep(i) =>
                /\ UNCHANGED <<purchase_orders, goods_receipts, vendors>>
                /\ \A j \in UuidPool \ {i} : RowOf(j)' = RowOf(j)
       /\ \A i \in UuidPool : SameAsAlone(i)']_vars

\* One run has ended COMPLETED while the other, on a different purchase
\* order, is under way in status MATCHING.
C20_Witness ==
    \E i, j \in DOMAIN invoices :
        /\ i # j
        /\ Finished(i) /\ invoices[i].status = "COMPLETED"
        /\ ~Finished(j) /\ pc[j] # "scheduled"
        /\ invoices[j].status = "MATCHING"
        /\ ExtractedRef(j, "po_number") # ExtractedRef(i, "po_number")

\* The calls of the extract_invoice call before its k-th one that were op
\* with outcome ok.
CallsBefore(k, op, ok) ==
    Cardinality({j \in 1..(k - 1) : astate.calls[j] = Call(op, ok)})

\* C21 as stated: no LLM-based extraction is invoked before 3 attempts of the
\* service have failed, and the local text and regex extractions are used
\* only after an LLM-based extraction has failed.
C21_LlmOnlyAfterThreeAttempts ==
    \A k \in 1..Len(astate.calls) :
        /\ astate.calls[k].op = "llm" => CallsBefore(k, "extract", FALSE) = 3
        /\ astate.calls[k].op \in {"text", "regex"} => CallsBefore(k, "llm", FALSE) > 0

\* C21, amended: the extract step is attempted at most 3 times, a delay of 2
\* follows each failed attempt but the third, and the LLM-based extraction of
\* the parsed document comes only after 3 failed attempts and 2 delays; the
\* regex extraction comes only right after a failed LLM-based extraction;
\* the local text extraction comes right after a failed step (setup, parse,
\* the import of the LLM client, normalisation), without retry, and is
\* followed by an LLM-based extraction of that text.
C21_RetryThenFallbacks ==
    \A k \in 1..Len(astate.calls) :
        LET call == astate.calls[k]
            local_path == \E j \in 1..(k - 1) : astate.calls[j].op = "text"
        IN  /\ call.op = "extract" =>
                  /\ CallsBefore(k, "extract", FALSE) + CallsBefore(k, "extract", TRUE) < 3
                  /\ CallsBefore(k, "extract", TRUE) = 0
                  /\ CallsBefore(k, "sleep", TRUE) = CallsBefore(k, "extract", FALSE)
            /\ call.op = "sleep" =>
                  /\ astate.calls[k - 1] = Call("extract", FALSE)
                  /\ CallsBefore(k, "sleep", TRUE) < 2
            /\ (call.op = "llm" /\ ~local_path) =>
                  /\ CallsBefore(k, "extract", FALSE) = 3
                  /\ CallsBefore(k, "sleep", TRUE) = 2
                  /\ astate.slept = 4
            /\ (call.op = "llm" /\ local_path) => astate.calls[k - 1].op = "text"
            /\ call.op = "regex" => astate.calls[k - 1] = Call("llm", FALSE)
            /\ call.op = "text" =>
                  /\ astate.calls[k - 1].op \in {"setup", "parse", "llm", "validate"}
                  /\ ~astate.calls[k - 1].ok

\* Three failed attempts, the LLM-based extraction failed, the regex
\* extraction gave the result.
C21_Witness ==
    /\ apc = "returned"
    /\ astate.calls =
          << Call("setup", TRUE), Call("parse", TRUE), Call("extract", FALSE),
             Call("sleep", TRUE), Call("extract", FALSE), Call("sleep", TRUE),
             Call("extract", FALSE), Call("llm", FALSE), Call("regex", TRUE),
             Call("validate", TRUE) >>

\* The parse step, every extract attempt, every LLM-based extraction and the
\* local text extraction of the call have failed.
EveryPathFailed ==
    \A k \in 1..Len(astate.calls) :
        astate.calls[k].op \in {"parse", "extract", "llm", "text"} => ~astate.calls[k].ok

\* C22: extract_invoice never raises: whatever fails, it has a next step until
\* it returns, it returns within 12 calls, and what it returns is an
\* ExtractionResult (fields, their count, a quality score); when every path
\* has failed the result has empty fields, field_count 0 and quality_score 0.
C22_ExtractNeverRaises ==
    /\ apc \in {"start", "parse", "extract", "sleep", "llm", "finish", "fallback_text",
                "fallback_llm", "fallback_finish", "returned"}
    /\ aout.exc = "none"
    /\ Len(astate.calls) <= 12
    /\ apc # "returned" => ENABLED extract_invoice
    /\ apc = "returned" =>
          /\ DOMAIN aout.result = {"fields", "quality_score", "field_count"}
          /\ aout.result.field_count = Cardinality(DOMAIN aout.result.fields)
          /\ aout.result.quality_score \in 0..1000
          /\ EveryPathFailed =>
                /\ DOMAIN aout.result.fields = {}
                /\ aout.result.field_count = 0
                /\ aout.result.quality_score = 0

\* The parse step failed, the local text extraction failed, the generative
\* call failed, and the regex extraction of the empty text was scored.
C22_Witness ==
    /\ apc = "returned"
    /\ EveryPathFailed
    /\ astate.calls =
          << Call("setup", TRUE), Call("parse", FALSE), Call("text", FALSE),
             Call("llm", FALSE), Call("regex", TRUE), Call("validate", TRUE) >>
    /\ aout.result.quality_score = 0

\* C23: the quality score of every returned field map lies in [0, 100] (0 to
\* 1000 tenths), is the score of exactly the field map returned with it, and
\* is 0 for the empty field map.
C23_QualityBounded ==
    apc = "returned" =>
        /\ aout.result.quality_score >= 0
        /\ aout.result.quality_score <= 1000
        /\ astate.calls[Len(astate.calls)] = Call("validate", TRUE) =>
              aout.result.quality_score = _calculate_quality(aout.result.fields)
        /\ DOMAIN aout.result.fields = {} => aout.result.quality_score = 0

\* All 25 core fields populated, five line items: 50 + 40 + 10.
C23_Witness ==
    /\ apc = "returned"
    /\ core_fields \subseteq DOMAIN aout.result.fields
    /\ aout.result.quality_score = 1000

\* A value that is not null, the empty string, zero or the empty sequence.
Populated(v) ==
    ~(\/ v.t = "null"
      \/ v.t = "str" /\ v.s = ""
      \/ v.t = "num" /\ v.n = 0
      \/ v.t = "list" /\ v.l = <<>>)

\* round(min(100, core/n * 50 + critical/5 * 40 + bonus), 1) in tenths, over
\* n core fields; a critical field counts when its value is true in Python.
FormulaOver(n, fields) ==
    LET core == Cardinality({f \in core_fields \cap DOMAIN fields : Populated(fields[f])})
        critical ==
            Cardinality({f \in {"vendor_name", "invoice_number", "total", "invoice_date",
                                 "po_number"} \cap DOMAIN fields :
                            Populated(fields[f])
                            /\ ~(fields[f].t = "obj" /\ DOMAIN fields[f].d = {})})
        count == IF "line_items" \in DOMAIN fields /\ fields["line_items"].t = "list"
                 THEN Len(fields["line_items"].l) ELSE 0
        bonus == IF 2 * count < 10 THEN 2 * count ELSE 10
        sum == core * 50 * 5 + critical * 40 * n + bonus * 5 * n
        capped == IF sum > 100 * 5 * n THEN 100 * 5 * n ELSE sum
    IN  (20 * capped + 5 * n) \div (10 * n)

\* C24 as stated: the score is the formula with core_score = populated core
\* fields / 19 * 50.
C24_FormulaOver19 ==
    apc = "returned" => aout.result.quality_score = FormulaOver(19, aout.result.fields)

\* C24, amended: the score is round(min(100, core_score + critical_score +
\* line_items_bonus), 1) with core_score = populated core fields / 25 * 50 over
\* the 25 core fields, critical_score = critical fields with a true value
\* / 5 * 40, and line_items_bonus = min(10, 2 * number of line items).
C24_FormulaOver25 ==
    apc = "returned" => aout.result.quality_score = FormulaOver(25, aout.result.fields)

\* Only line_items extracted, with six items: 2 + 0 + 10.
C24_Witness ==
    /\ apc = "returned"
    /\ DOMAIN aout.result.fields = {"line_items"}
    /\ aout.result.fields["line_items"].t = "list"
    /\ Len(aout.result.fields["line_items"].l) = 6
    /\ aout.result.quality_score = 120

\* C25: a malformed or missing serialized payload never makes a read fail:
\* get_invoice answers for a stored invoice whose extracted_data,
\* matching_result, fraud_result or processing_log is missing or malformed,
\* and the pipeline's loading of the purchase order's line_items, the
\* receipt's received_items and the vendor's invoice_history raises nothing.
C25_MalformedReadsTolerated ==
    /\ \A i \in DOMAIN invoices :
          \A c \in {"extracted_data", "matching_result", "fraud_result", "processing_log"},
             text \in {NullText, BadText} :
                get_invoice(Invoice_update(invoices, i, SetItem(EmptyDict, c, text)), i).exc
                    = "none"
    /\ \A i \in UuidPool :
          pc[i] = "log_match_agent" =>
              ParseRecords(local[i].po.row, local[i].grn.row, local[i].vendor.row) = "none"

LevelRank(level) ==
    CASE level = "LOW" -> 1 [] level = "MEDIUM" -> 2 [] level = "HIGH" -> 3
      [] level = "CRITICAL" -> 4 [] OTHER -> 0

\* C26: every FraudResult validate_invoice returns has a risk_score in 0..100
\* and a risk_level among LOW, MEDIUM, HIGH, CRITICAL that is monotone in the
\* score: compared with the fallback result (50, MEDIUM), a lower score never
\* has a higher level and a higher score never a lower one.
C26_RiskScoreAndLevel ==
    vpc = "returned" =>
        LET f == vout.result.fraud IN
        /\ {"risk_score", "risk_level"} \subseteq DOMAIN f
        /\ f.risk_score \in 0..100
        /\ f.risk_level \in {"LOW", "MEDIUM", "HIGH", "CRITICAL"}
        /\ f.risk_score <= 50 => LevelRank(f.risk_level) <= LevelRank("MEDIUM")
        /\ f.risk_score >= 50 => LevelRank(f.risk_level) >= LevelRank("MEDIUM")

\* No MATCH_AGENT event after a FRAUD_AGENT event.
MatchBeforeFraud(insights) ==
    \A j \in 1..Len(insights), k \in 1..Len(insights) :
        (insights[j].stage = "FRAUD_AGENT" /\ insights[k].stage = "MATCH_AGENT") => k < j

\* C27: the Fraud Agent starts only after the Matching Agent has finished and
\* finds its MatchingResult in the state it is given; the recommendation is
\* computed only after both agents have finished, from their two results; and
\* every MATCH_AGENT insight precedes every FRAUD_AGENT insight.
C27_AgentOrder ==
    /\ vpc = "match_agent" =>
          /\ vin.mresp.call = "none" /\ vin.fresp.call = "none"
          /\ "matching" \notin DOMAIN vstate
    /\ vin.fresp.call # "none" => vin.mresp.call # "none"
    /\ vpc = "fraud_agent" =>
          /\ vin.mresp.call # "none" /\ vin.fresp.call = "none"
          /\ "matching" \in DOMAIN vstate /\ "fraud" \notin DOMAIN vstate
          /\ vstate.matching = Get(_invoke_llm(vin.mresp).d, "matching", JObj(EmptyDict))
          /\ vout = NoResult
    /\ vpc \in {"assemble", "returned"} =>
          /\ vin.mresp.call # "none" /\ vin.fresp.call # "none"
          /\ {"matching", "fraud"} \subseteq DOMAIN vstate
    /\ vpc = "assemble" => vout = NoResult
    /\ vpc = "returned" =>
          /\ vout.result.matching = vstate.matching.d
          /\ vout.result.fraud = vstate.fraud.d
          /\ MatchBeforeFraud(vout.result.insights)
    /\ MatchBeforeFraud(Get(vstate, "insights", <<>>))

\* Both agents sent an insight, and the result lists the Matching Agent's first.
C27_Witness ==
    /\ vpc = "returned"
    /\ Len(vout.result.insights) = 2
    /\ vout.result.insights[1].stage = "MATCH_AGENT"
    /\ vout.result.insights[2].stage = "FRAUD_AGENT"
    /\ ~CallFailed(vin.mresp) /\ ~CallFailed(vin.fresp)

\* The stage of the event that explains a terminal status.
ExplainingStage(status) ==
    CASE status = "COMPLETED" -> "VALIDATION"
      [] status = "FAILED" -> "ERROR"
      [] OTHER -> "MATCHING"

\* C28: whenever a poll of an invoice answers with a terminal status, the
\* processing_log of the same answer is non-empty and its last event has the
\* stage that explains the status: MATCHING for the four NO_* statuses, ERROR
\* for FAILED, VALIDATION for COMPLETED.
C28_TerminalExplained ==
    \A i \in DOMAIN invoices :
        LET seen == get_invoice(invoices, i) IN
        (seen.exc = "none" /\ seen.status \in Terminal) =>
            /\ seen.processing_log # <<>>
            /\ seen.processing_log[Len(seen.processing_log)].stage
                  = ExplainingStage(seen.status)

\* The columns of a row, among the six the completion writes, that are set.
CompletionColumns ==
    {"vendor_id", "po_number", "grn_number", "matching_result", "fraud_result",
     "processed_at"}

SetColumns(row) ==
    {c \in {"vendor_id", "po_number", "grn_number", "processed_at"} : row[c] # None}
        \cup {c \in {"matching_result", "fraud_result"} : row[c].k # "null"}

InProgress == <<"PROCESSING", "EXTRACTING", "MATCHING", "FRAUD_CHECK", "COMPLETED">>

Rank(status) == CHOOSE k \in 1..Len(InProgress) : InProgress[k] = status

\* A change of status the claim allows.
AllowedChange(old, new) ==
    /\ old \notin Terminal
    /\ CASE new = "NO_PO_NUMBER" -> old = "EXTRACTING"
         [] new \in {"NO_PO_FOUND", "NO_GRN_FOUND", "NO_VENDOR_FOUND"} -> old = "MATCHING"
         [] new = "COMPLETED" -> old = "FRAUD_CHECK"
         [] new = "FAILED" -> TRUE
         [] OTHER -> Rank(old) < Rank(new)

Invoked(i) == local[i].mresp.call # "none"

\* C31: validate_invoice is called at most once per run, at the validate step
\* only; when it is called a po_number was extracted, the purchase order, a
\* goods receipt and the vendor were found, and the stored status (of a record
\* that still exists) is FRAUD_CHECK; a run whose record has a NO_* status
\* never called it.
C31_ValidateOnceInFraudCheck ==
    /\ [](\A i \in UuidPool :
            /\ pc[i] = "validate" =>
                  /\ ~Invoked(i)
                  /\ Truthy(local[i].po_number)
                  /\ local[i].po.found /\ local[i].grn.found /\ local[i].vendor.found
                  /\ i \in DOMAIN invoices => invoices[i].status = "FRAUD_CHECK"
            /\ Invoked(i) =>
                  pc[i] \in {"flush_insights", "log_validation", "set_completed",
                             "except_log", "except_update", "returned", "raised"}
            /\ (i \in DOMAIN invoices
                  /\ invoices[i].status \in {"NO_PO_NUMBER", "NO_PO_FOUND", "NO_GRN_FOUND",
                                             "NO_VENDOR_FOUND"})
               => ~Invoked(i))
    /\ [][\A i \in UuidPool :
            (~Invoked(i) /\ local'[i].mresp.call # "none") => pc[i] = "validate"]_vars

\* A run that called validate_invoice once and completed.
C31_Witness ==
    \E i \in DOMAIN invoices :
        /\ pc[i] = "returned" /\ Invoked(i)
        /\ invoices[i].status = "COMPLETED"
        /\ local[i].vendor.row.vendor_id = "V-1"

\* The calls that leave the process: parse, extract, generative call.
ExternalCalls ==
    {k \in 1..Len(astate.calls) : astate.calls[k].op \in {"parse", "extract", "llm"}}

\* C32: in one extraction the extract call is attempted at most 3 times; a
\* delay of 2 follows each failed attempt except the third, which is followed
\* by the LLM-based extraction (at most 2 delays, 4 time units); a successful
\* attempt is followed at once by the normalisation, with no later attempt or
\* delay and no LLM call of the loop; and there are at most 6 external calls.
C32_RetryLoopBounded ==
    /\ Cardinality(ExternalCalls) <= 6
    /\ astate.slept = retry_delay * Cardinality({k \in 1..Len(astate.calls) :
                                                    astate.calls[k].op = "sleep"})
    /\ astate.slept <= 2 * retry_delay
    /\ \A k \in 1..Len(astate.calls) :
          LET call == astate.calls[k]
              attempts == CallsBefore(k, "extract", FALSE) + CallsBefore(k, "extract", TRUE)
              last == k = Len(astate.calls)
          IN  /\ call.op = "extract" => attempts < 3
              /\ (call = Call("extract", FALSE) /\ ~last) =>
                    astate.calls[k + 1].op = (IF attempts < 2 THEN "sleep" ELSE "llm")
              /\ call.op = "sleep" =>
                    /\ astate.calls[k - 1] = Call("extract", FALSE)
                    /\ ~last => astate.calls[k + 1].op = "extract"
              /\ call = Call("extract", TRUE) =>
                    /\ ~last => astate.calls[k + 1].op = "validate"
                    /\ \A j \in (k + 1)..Len(astate.calls) :
                          /\ astate.calls[j].op \notin {"extract", "sleep"}
                          /\ astate.calls[j].op = "llm" => astate.calls[j - 1].op = "text"

\* The second attempt succeeded after one delay.
C32_Witness ==
    /\ apc = "returned"
    /\ astate.calls =
          << Call("setup", TRUE), Call("parse", TRUE), Call("extract", FALSE),
             Call("sleep", TRUE), Call("extract", TRUE), Call("validate", TRUE) >>
    /\ astate.slept = 2

\* The run's extract_invoice call has returned the result of the case in
\* which every extraction path failed.
ExtractionFailed(i) ==
    /\ pc[i] \notin {"idle", "scheduled", "log_pipeline", "set_extracting", "extract"}
    /\ local[i].log_event_bound
    /\ local[i].extraction_result = FailedExtraction

\* C33: a run whose extraction returned empty fields with quality 0 fails
\* only if a store access raises, never because of the extraction; otherwise
\* it ends with status NO_PO_NUMBER, recommendation REVIEW and the extraction
\* result in extracted_data; and it never looks up a purchase order, a goods
\* receipt or a vendor.
C33_FailedExtractionEndsNoPoNumber ==
    \A i \in UuidPool :
        ExtractionFailed(i) =>
            /\ pc[i] \in {"log_extraction", "save_extraction", "save_invoice_number",
                          "log_no_po_number", "set_no_po_number", "except_log",
                          "except_update", "returned", "raised"}
            /\ local[i].exc \in {"none", "OperationalError"}
            /\ local[i].po = NotFound /\ local[i].grn = NotFound
            /\ local[i].vendor = NotFound /\ ~Invoked(i)
            /\ (pc[i] = "returned" /\ local[i].exc = "none" /\ i \in DOMAIN invoices) =>
                  /\ invoices[i].status = "NO_PO_NUMBER"
                  /\ invoices[i].recommendation = "REVIEW"
                  /\ invoices[i].extracted_data = json_dumps(FailedExtraction)
                  /\ invoices[i].invoice_number = None

\* Such a run, ended in NO_PO_NUMBER.
C33_Witness ==
    \E i \in DOMAIN invoices :
        /\ ExtractionFailed(i) /\ pc[i] = "returned"
        /\ invoices[i].status = "NO_PO_NUMBER"
        /\ invoices[i].extracted_data.k = "json"
        /\ invoices[i].extracted_data.v.field_count = 0

\* The sub-mappings of a raw field map that count as categories: every
\* mapping-valued key, or only those under an upper-case key.
Categories(d, upper_only) ==
    {c \in DOMAIN d : d[c].t = "obj" /\ (upper_only => IsUpper(c))}

NestedKeys(d, cats) == UNION {DOMAIN d[c].d : c \in cats}

\* The raw map with its categories removed and the fields found only inside
\* them put at the top level.
Moved(d, cats) ==
    [k \in (DOMAIN d \ cats) \cup NestedKeys(d, cats) |->
        IF k \in DOMAIN d THEN d[k]
        ELSE d[CHOOSE c \in cats : k \in DOMAIN d[c].d].d[k]]

Normalized(d) == _validate_extraction([data |-> JObj(d), cats_last |-> FALSE]).validated

\* The amount values of the model that float() accepts.
Coercible(v) == v.t = "num" \/ (v.t = "str" /\ v.s = "5")

\* What C34 says of a normalisation that returned the field map `fields` for
\* the raw map `d`, with the given notion of category.
NormalizedAsClaimed(d, fields, upper_only) ==
    LET cats == Categories(d, upper_only)
        moved == Moved(d, cats)
    IN  /\ \A k \in NestedKeys(d, cats) \ DOMAIN d :
              moved[k].t # "null" =>
                  /\ k \in DOMAIN fields
                  /\ fields[k] = Normalized(moved)[k]
        /\ (NestedKeys(d, cats) \cap DOMAIN d = {}) =>
              /\ fields = Normalized(moved)
              /\ _calculate_quality(fields) = _calculate_quality(Normalized(moved))
        /\ \A k \in amount_fields \cap DOMAIN fields :
              /\ fields[k].t = "num"
              /\ (k \in DOMAIN moved /\ ~Coercible(moved[k])
                    /\ NestedKeys(d, cats) \cap DOMAIN d = {}) => fields[k] = JNum(0)
        /\ Normalized(fields) = fields

\* The call normalised a raw field map and returned the result.
NormalizedRun ==
    /\ apc = "returned"
    /\ astate.calls[Len(astate.calls)] = Call("validate", TRUE)

RuleOnScores(quality, match, risk) ==
    CASE quality < 70 -> "NEEDS_REVIEW"
      [] quality >= 70 /\ risk >= 70 -> "REJECT"
      [] quality >= 70 /\ risk < 70 /\ match < 60 -> "REJECT"
      [] quality >= 70 /\ risk < 70 /\ match >= 60 /\ (risk >= 40 \/ match < 85)
            -> "NEEDS_REVIEW"
      [] OTHER -> "APPROVE"

\* C35: the recommendation stored with a COMPLETED invoice is the rule applied
\* to the quality_score in its extracted_data, the overall_score in its
\* matching_result and the risk_score in its fraud_result; with a stored
\* quality below 70 it is NEEDS_REVIEW.
C35_StoredRecommendationFollowsRule ==
    \A i \in DOMAIN invoices :
        invoices[i].status = "COMPLETED" =>
            LET quality == json_loads(invoices[i].extracted_data).value.quality_score
                matching == json_loads(invoices[i].matching_result).value
                fraud == json_loads(invoices[i].fraud_result).value
            IN  /\ {"overall_score"} \subseteq DOMAIN matching
                /\ {"risk_score"} \subseteq DOMAIN fraud
                /\ invoices[i].recommendation
                      = RuleOnScores(quality, matching.overall_score, fraud.risk_score)
                /\ quality < 70 => invoices[i].recommendation = "NEEDS_REVIEW"

\* A completed invoice of quality 60 whose risk score alone would reject it.
C35_Witness ==
    \E i \in DOMAIN invoices :
        /\ invoices[i].status = "COMPLETED"
        /\ invoices[i].extracted_data.v.quality_score = 60
        /\ invoices[i].fraud_result.v.risk_score = 70
        /\ invoices[i].recommendation = "NEEDS_REVIEW"

\* C36: when the generative call of an agent failed, validate_invoice does not
\* return APPROVE: after a failed Fraud Agent call the risk score is 50 and
\* the recommendation NEEDS_REVIEW or REJECT; after a failed Matching Agent
\* call the match score reads as 0 and the recommendation is REJECT, or
\* NEEDS_REVIEW when the extraction quality is below 70.
C36_AgentFailureNeverApproves ==
    vpc = "returned" =>
        LET result == vout.result IN
        /\ (CallFailed(vin.mresp) \/ CallFailed(vin.fresp)) =>
              result.recommendation \in {"NEEDS_REVIEW", "REJECT"}
        /\ CallFailed(vin.fresp) =>
              /\ result.fraud.risk_score = 50
              /\ result.summary[3] = 50
        /\ CallFailed(vin.mresp) =>
              /\ "overall_score" \notin DOMAIN result.matching
              /\ result.summary[2] = 0
              /\ result.recommendation =
                    IF vin.extraction_quality < 70 THEN "NEEDS_REVIEW" ELSE "REJECT"

\* The Fraud Agent's call failed after a perfect match on a good extraction.
C36_Witness ==
    /\ vpc = "returned"
    /\ ~CallFailed(vin.mresp) /\ CallFailed(vin.fresp)
    /\ vin.extraction_quality = 100
    /\ vout.result.summary = <<"NEEDS_REVIEW", 100, 50>>

\* The extracted grn_number names a stored receipt, so that lines 129-132
\* resolve the receipt by the exact lookup.
ExactGrn(i) ==
    /\ Truthy(local[i].grn_number)
    /\ local[i].grn_number.s \in DOMAIN goods_receipts

\* C37 as stated: whenever validate_invoice is about to be called, the goods
\* receipt passed to it has the po_number extracted from the invoice.
C37_GrnBelongsToPo ==
    \A i \in UuidPool :
        pc[i] = "validate" =>
            /\ local[i].grn.found
            /\ local[i].grn.row.po_number = local[i].po_number.s

\* C37, amended: the goods receipt passed to validate_invoice has the
\* extracted po_number when it was resolved by the lookup by po_number; one
\* resolved by the exact lookup is the receipt with the extracted grn_number.
C37_GrnOfPoUnlessExact ==
    \A i \in UuidPool :
        pc[i] = "validate" =>
            /\ local[i].grn.found
            /\ local[i].po.row.po_number = local[i].po_number.s
            /\ IF ExactGrn(i)
               THEN local[i].grn.row.grn_number = local[i].grn_number.s
               ELSE local[i].grn.row.po_number = local[i].po_number.s

\* A receipt found by the purchase order, the extracted grn_number being unknown.
C37_Witness ==
    \E i \in UuidPool :
        /\ pc[i] = "validate"
        /\ Truthy(local[i].grn_number) /\ ~ExactGrn(i)
        /\ local[i].po_number.s = "PO-1"
        /\ local[i].grn.row.grn_number = "GRN-1"

\* The record of invoice i was created by an upload and removed since.
Deleted(i) == pc[i] # "idle" /\ i \notin DOMAIN invoices

\* C38: once delete_invoice has removed the record of an invoice, before its
\* run starts or while it is in progress, no step brings the record back, the
\* steps of its run leave the store as it is and never end raising, and a run
\* that finds no record when it starts returns at once with nothing written.
C38_DeletedNeverRecreated ==
    [][\A i \in UuidPool :
          Deleted(i) =>
              /\ i \notin DOMAIN invoices'
              /\ pc'[i] # "raised"
              /\ pc'[i] # pc[i] => invoices' = invoices
              /\ (pc[i] = "scheduled" /\ pc'[i] # pc[i]) =>
                     pc'[i] = "returned" /\ local'[i] = local[i]]_vars

\* One run returned at once on finding no record; the other, its record
\* removed while it was in progress, has gone on and is at its last write.
C38_Witness ==
    \E i, j \in UuidPool :
        /\ i # j
        /\ Deleted(i) /\ pc[i] = "returned" /\ ~local[i].log_event_bound
        /\ Deleted(j) /\ pc[j] = "set_completed"

\* The buckets of get_stats a status is counted in.
BucketsOf(status) ==
    {b \in {"completed", "processing", "failed"} :
        get_stats([x \in {"row"} |-> [status |-> status]])[b] = 1}

\* C39: in every state of the store the total of get_stats is the sum of its
\* three counts, every stored status being counted in exactly one of them.
C39_StatsAddUp ==
    /\ get_stats(invoices).total_invoices =
          get_stats(invoices).completed + get_stats(invoices).processing
              + get_stats(invoices).failed
    /\ \A i \in DOMAIN invoices : Cardinality(BucketsOf(invoices[i].status)) = 1

\* Two invoices on file, one completed and one ended for want of a vendor.
C39_Witness ==
    /\ get_stats(invoices).total_invoices = 1 + 1
    /\ get_stats(invoices).completed = 1
    /\ \E i \in DOMAIN invoices : invoices[i].status = "NO_VENDOR_FOUND"

====
